---- MODULE Spec2Model ----
(***************************************************************************)
(* Flow execution engine of bruh-backend (api/features/flows).             *)
(*                                                                         *)
(* The worker (tasks.execute_flow_task -> FlowExecutionService.            *)
(* execute_flow_async -> execute_flow) and the web process                 *)
(* (FlowExecutionController.cancel_execution -> FlowExecutionService.      *)
(* cancel_execution) each hold their own in-memory FlowExecution object    *)
(* and share only the persisted row.                                       *)
(*                                                                         *)
(* Data values (node outputs, variable values) are Python strings,         *)
(* modelled as sequences of one-character strings; names (node ids,        *)
(* handles, variable names, statuses, messages) are atomic strings.        *)
(***************************************************************************)
EXTENDS Integers, Sequences, FiniteSets, TLC

\* ---------------------------------------------------------------- values

\* Python None as a data value
None == <<"<None>">>

\* the empty Python string
EmptyStr == <<>>

\* str(value)
Str(v) == IF v = None THEN <<"N", "o", "n", "e">> ELSE v

\* dict.get(key, default)
Get(d, k, default) == IF k \in DOMAIN d THEN d[k] ELSE default

\* the empty dict
EmptyDict == [k \in {} |-> None]

\* d[k] = v on a dict
Put(d, k, v) == [x \in (DOMAIN d) \cup {k} |-> IF x = k THEN v ELSE d[x]]

\* Python truthiness of an optional name (None or "" are falsy)
NoName == ""

Range(s) == {s[i] : i \in 1..Len(s)}

\* list(dict.fromkeys(seq)): drop repeated entries, keep first occurrences
RECURSIVE Dedupe(_)
Dedupe(s) ==
    IF s = <<>> THEN <<>>
    ELSE LET front == Dedupe(SubSeq(s, 1, Len(s) - 1))
             last == s[Len(s)]
         IN IF last \in Range(front) THEN front ELSE Append(front, last)

\* ------------------------------------------------------------ the graph

\* nodes_dict = {node["id"]: node for node in nodes}
nodes_dict(nodes) ==
    [id \in {nodes[i].id : i \in 1..Len(nodes)} |->
        nodes[CHOOSE i \in 1..Len(nodes) :
                 /\ nodes[i].id = id
                 /\ \A j \in (i + 1)..Len(nodes) : nodes[j].id # id]]

\* graph[node_id] after the edge loop: the targets of the node's outgoing
\* edges, in edge order
GraphOf(edges, node_id) ==
    LET out == SelectSeq(edges, LAMBDA e : e.source = node_id)
    IN [i \in 1..Len(out) |-> out[i].target]

\* an in_degree that counts no edge
InDegreeOf_Zero(nodes, edges) == [id \in DOMAIN nodes_dict(nodes) |-> 0]

\* in_degree after the edge loop
InDegreeOf(nodes, edges) ==
    [id \in DOMAIN nodes_dict(nodes) |->
        Cardinality({i \in 1..Len(edges) : edges[i].target = id})]

\* the inner loop over graph[node_id]: decrement each neighbour, append the
\* ones that reach zero
RECURSIVE RelaxNeighbors(_, _, _)
RelaxNeighbors(nbrs, in_degree, next_level) ==
    IF nbrs = <<>> THEN [in_degree |-> in_degree, next_level |-> next_level]
    ELSE LET n == Head(nbrs)
             d == [in_degree EXCEPT ![n] = @ - 1]
         IN RelaxNeighbors(Tail(nbrs), d,
                           IF d[n] = 0 THEN Append(next_level, n) ELSE next_level)

\* the loop over current_level
RECURSIVE RelaxLevel(_, _, _, _)
RelaxLevel(level, edges, in_degree, next_level) ==
    IF level = <<>> THEN [in_degree |-> in_degree, next_level |-> next_level]
    ELSE LET r == RelaxNeighbors(GraphOf(edges, Head(level)), in_degree, next_level)
         IN RelaxLevel(Tail(level), edges, r.in_degree, r.next_level)

\* the while loop: levels and processed once current_level is empty
RECURSIVE GroupLoop(_, _, _, _, _)
GroupLoop(current_level, edges, in_degree, levels, processed) ==
    IF current_level = <<>> THEN [levels |-> levels, processed |-> processed]
    ELSE LET r == RelaxLevel(current_level, edges, in_degree, <<>>)
         IN GroupLoop(Dedupe(r.next_level), edges, r.in_degree,
                      Append(levels, current_level),
                      processed \cup Range(current_level))

\* a grouping that puts every node in one level
_group_nodes_one_level(nodes, edges) ==
    [none |-> FALSE, levels |-> <<Dedupe([i \in 1..Len(nodes) |-> nodes[i].id])>>]

\* a grouping that returns the levels it found even when nodes are left over
_group_nodes_partial(nodes, edges) ==
    LET in_degree == InDegreeOf(nodes, edges)
        ids == [i \in 1..Len(nodes) |-> nodes[i].id]
        first == SelectSeq(Dedupe(ids), LAMBDA id : in_degree[id] = 0)
    IN [none |-> FALSE, levels |-> GroupLoop(first, edges, in_degree, <<>>, {}).levels]

\* a grouping that gives every node a level of its own, in topological order
_group_nodes_one_by_one(nodes, edges) ==
    LET in_degree == InDegreeOf(nodes, edges)
        ids == [i \in 1..Len(nodes) |-> nodes[i].id]
        first == SelectSeq(Dedupe(ids), LAMBDA id : in_degree[id] = 0)
        r == GroupLoop(first, edges, in_degree, <<>>, {})
        flat == IF r.levels = <<>> THEN <<>>
                ELSE [i \in 1..Cardinality(r.processed) |->
                         CHOOSE id \in r.processed :
                            \E k \in 1..Len(r.levels) : \E j \in 1..Len(r.levels[k]) :
                               /\ r.levels[k][j] = id
                               /\ i = j + Cardinality(UNION {Range(r.levels[h]) : h \in 1..(k - 1)})]
    IN IF Cardinality(r.processed) # Len(nodes)
       THEN [none |-> TRUE, levels |-> <<>>]
       ELSE [none |-> FALSE, levels |-> [i \in 1..Len(flat) |-> <<flat[i]>>]]

\* _group_nodes_by_depth: [none |-> TRUE] is Python None
_group_nodes_by_depth(nodes, edges) ==
    LET in_degree == InDegreeOf(nodes, edges)
        ids == [i \in 1..Len(nodes) |-> nodes[i].id]
        first == SelectSeq(Dedupe(ids), LAMBDA id : in_degree[id] = 0)
        r == GroupLoop(first, edges, in_degree, <<>>, {})
    IN IF Cardinality(r.processed) # Len(nodes)
       THEN [none |-> TRUE, levels |-> <<>>]
       ELSE [none |-> FALSE, levels |-> r.levels]

\* the index (from 0) of the level that holds node_id
LevelOf(levels, node_id) ==
    CHOOSE k \in 0..(Len(levels) - 1) : node_id \in Range(levels[k + 1])

\* _get_downstream_nodes: breadth-first walk that neither adds nor walks
\* through a target in exclude_nodes
RECURSIVE DownstreamLoop(_, _, _, _, _)
DownstreamLoop(to_visit, visited, downstream, edges, exclude_nodes) ==
    IF to_visit = <<>> THEN downstream
    ELSE LET current == Head(to_visit)
         IN IF current \in visited
            THEN DownstreamLoop(Tail(to_visit), visited, downstream, edges, exclude_nodes)
            ELSE LET found == SelectSeq(GraphOf(edges, current),
                                        LAMBDA t : t \notin exclude_nodes)
                 IN DownstreamLoop(Tail(to_visit) \o found, visited \cup {current},
                                   downstream \cup Range(found), edges, exclude_nodes)

\* a walk that returns every edge target that is not excluded
_get_downstream_nodes_AllTargets(node_id, edges, exclude_nodes) ==
    {edges[i].target : i \in 1..Len(edges)} \ exclude_nodes

_get_downstream_nodes(node_id, edges, exclude_nodes) ==
    DownstreamLoop(<<node_id>>, {}, {}, edges, exclude_nodes)

\* every node reachable from node_id along edges (not a function of the code)
RECURSIVE ReachLoop(_, _)
ReachLoop(frontier, edges) ==
    LET next == frontier \cup
                {edges[i].target : i \in {j \in 1..Len(edges) : edges[j].source \in frontier}}
    IN IF next = frontier THEN frontier ELSE ReachLoop(next, edges)

Reachable(node_id, edges) ==
    ReachLoop({edges[i].target : i \in {j \in 1..Len(edges) : edges[j].source = node_id}},
              edges)

\* ------------------------------------------------------------ the validator

\* a depth-first search that keeps a finished node on the recursion stack
DfsLeave_Keep(rec_stack, node_id) == rec_stack

\* rec_stack.remove(node_id)
DfsLeave(rec_stack, node_id) == rec_stack \ {node_id}

\* dfs(node_id) of _has_cycle on the closure state [found, visited, rec_stack];
\* DfsNeighbors is its loop over graph.get(node_id, [])
RECURSIVE Dfs(_, _, _)
RECURSIVE DfsNeighbors(_, _, _)
Dfs(node_id, edges, st) ==
    LET entered == [found |-> FALSE,
                    visited |-> st.visited \cup {node_id},
                    rec_stack |-> st.rec_stack \cup {node_id}]
        after == DfsNeighbors(GraphOf(edges, node_id), edges, entered)
    IN IF after.found THEN after
       ELSE [after EXCEPT !.rec_stack = DfsLeave(after.rec_stack, node_id)]

DfsNeighbors(nbrs, edges, st) ==
    IF nbrs = <<>> THEN st
    ELSE LET neighbor == Head(nbrs)
         IN IF neighbor \notin st.visited
            THEN LET r == Dfs(neighbor, edges, st)
                 IN IF r.found THEN r ELSE DfsNeighbors(Tail(nbrs), edges, r)
            ELSE IF neighbor \in st.rec_stack
            THEN [st EXCEPT !.found = TRUE]
            ELSE DfsNeighbors(Tail(nbrs), edges, st)

\* `for node in nodes: if node.id not in visited: if dfs(node.id): return True`
RECURSIVE HasCycleLoop(_, _, _)
HasCycleLoop(ns, edges, st) ==
    IF ns = <<>> THEN FALSE
    ELSE IF Head(ns).id \in st.visited THEN HasCycleLoop(Tail(ns), edges, st)
    ELSE LET r == Dfs(Head(ns).id, edges, st)
         IN IF r.found THEN TRUE ELSE HasCycleLoop(Tail(ns), edges, r)

_has_cycle(nodes, edges) ==
    HasCycleLoop(nodes, edges, [found |-> FALSE, visited |-> {}, rec_stack |-> {}])

\* FlowNode.populate_node_type on the dict of a node: node_data is the dict
\* object the caller holds under node["data"], and it is written in place
populate_node_type(node) ==
    IF "data" \in DOMAIN node /\ "nodeType" \notin DOMAIN node.data
    THEN [node EXCEPT !.data = Put(@, "nodeType", node.type)]
    ELSE node

\* FlowNode(**node) raises pydantic's ValidationError for the dict of an llm
\* node that LLMNodeData rejects: provider and model are required, model and
\* userPromptTemplate must not be blank, temperature is within [0.0, 2.0]
FlowNodeRaises(node) ==
    /\ node.type = "llm"
    /\ LET node_data == Get(node, "data", EmptyDict)
       IN \/ Get(node_data, "provider", NoName) = NoName
          \/ Get(node_data, "model", NoName) = NoName
          \/ Get(node_data, "userPromptTemplate", <<"x">>) = EmptyStr
          \/ Get(node_data, "temperature", 7) \notin 0..20

\* `nodes = [FlowNode(**node) for node in nodes]` stops at the first node
\* that raises
ConversionRaises(nodes) == \E i \in 1..Len(nodes) : FlowNodeRaises(nodes[i])

\* the caller's nodes after that conversion: the nodes up to the first that
\* raises have been through populate_node_type
CallerNodes(nodes) ==
    [i \in 1..Len(nodes) |->
        IF \E j \in 1..(i - 1) : FlowNodeRaises(nodes[j]) THEN nodes[i]
        ELSE populate_node_type(nodes[i])]

\* `graph[edge.source].append(edge.target)` raises KeyError when the source
\* of an edge is not the id of a node: graph has the node ids as its keys
HasCycleRaises(nodes, edges) ==
    \E i \in 1..Len(edges) : edges[i].source \notin {nodes[j].id : j \in 1..Len(nodes)}

\* a call that ended with an exception instead of a return value
Raised(exception) == [raised |-> exception]

\* ValidationError(nodeId, field, message)
ValidationError(node_id, field, message) ==
    [nodeId |-> node_id, field |-> field, message |-> message]

\* `not getattr(node.data, field, None)` for a field that holds a name
MissingName(node_data, field) == Get(node_data, field, NoName) = NoName

\* `not getattr(node.data, field, None)` for a field that holds a value
MissingValue(node_data, field) == Get(node_data, field, None) \in {None, EmptyStr}

\* temperature in tenths; 1.0 when the node has none
TemperatureOf(node_data) == Get(node_data, "temperature", 10)

_validate_node(node) ==
    LET node_data == Get(node, "data", EmptyDict)
        err(cond, field, message) ==
            IF cond THEN <<ValidationError(node.id, field, <<message>>)>> ELSE <<>>
    IN CASE node.type = "input" ->
              err(MissingValue(node_data, "value") /\ MissingName(node_data, "variableName"),
                  "value", "Input node must have either a value or variable name")
         [] node.type = "llm" ->
              err(MissingName(node_data, "provider"), "provider",
                  "LLM node must specify a provider")
              \o err(MissingName(node_data, "model"), "model",
                     "LLM node must specify a model")
              \o err(MissingValue(node_data, "userPromptTemplate"), "userPromptTemplate",
                     "LLM node must have a prompt template")
              \o err(~(0 <= TemperatureOf(node_data) /\ TemperatureOf(node_data) <= 20),
                     "temperature", "Temperature must be between 0.0 and 2.0")
         [] node.type = "output" ->
              err(MissingName(node_data, "format"), "format",
                  "Output node must specify a format")
         [] OTHER -> <<>>

\* a loop over the edges that looks at their sources only
RECURSIVE EdgeErrors_SourceOnly(_, _)
EdgeErrors_SourceOnly(es, node_ids) ==
    IF es = <<>> THEN <<>>
    ELSE (IF Head(es).source \notin node_ids
          THEN <<ValidationError(Head(es).source, "edges",
                    <<"Edge source '", Head(es).source, "' references non-existent node">>)>>
          ELSE <<>>)
         \o EdgeErrors_SourceOnly(Tail(es), node_ids)

\* the loop over the edges that reports references to non-existent nodes
RECURSIVE EdgeErrors(_, _)
EdgeErrors(es, node_ids) ==
    IF es = <<>> THEN <<>>
    ELSE LET edge == Head(es)
         IN (IF edge.source \notin node_ids
             THEN <<ValidationError(edge.source, "edges",
                       <<"Edge source '", edge.source, "' references non-existent node">>)>>
             ELSE <<>>)
            \o (IF edge.target \notin node_ids
                THEN <<ValidationError(edge.target, "edges",
                          <<"Edge target '", edge.target, "' references non-existent node">>)>>
                ELSE <<>>)
            \o EdgeErrors(Tail(es), node_ids)

\* the loop that collects _validate_node's errors
RECURSIVE NodeErrors(_)
NodeErrors(ns) ==
    IF ns = <<>> THEN <<>> ELSE _validate_node(Head(ns)) \o NodeErrors(Tail(ns))

\* FlowValidationResult; the warnings are a set because they are appended in
\* the iteration order of a Python set
FlowValidationResult(valid, errors, warnings) ==
    [valid |-> valid, errors |-> errors, warnings |-> warnings]

validate_flow(nodes, edges) ==
    IF ConversionRaises(nodes) THEN Raised("ValidationError")
    ELSE IF nodes = <<>>
    THEN FlowValidationResult(FALSE,
            <<ValidationError(NoName, "nodes", <<"Flow must have at least one node">>)>>, {})
    ELSE LET node_ids == {nodes[i].id : i \in 1..Len(nodes)}
             types(t) == {nodes[i].id : i \in {j \in 1..Len(nodes) : nodes[j].type = t}}
             connected_nodes == {edges[i].source : i \in 1..Len(edges)}
                                \cup {edges[i].target : i \in 1..Len(edges)}
             disconnected == node_ids \ connected_nodes
             errors ==
                 (IF types("input") = {}
                  THEN <<ValidationError(NoName, "nodes",
                            <<"Flow must have at least one input node">>)>>
                  ELSE <<>>)
                 \o (IF types("output") = {}
                     THEN <<ValidationError(NoName, "nodes",
                               <<"Flow must have at least one output node">>)>>
                     ELSE <<>>)
                 \o EdgeErrors(edges, node_ids)
                 \o NodeErrors(nodes)
                 \o (IF _has_cycle(nodes, edges)
                     THEN <<ValidationError(NoName, "flow",
                               <<"Flow contains a cycle - execution may loop indefinitely">>)>>
                     ELSE <<>>)
             warnings ==
                 {<<"Node '", id, "' is not connected to any other nodes">> :
                     id \in {d \in disconnected :
                                nodes_dict(nodes)[d].type \notin {"input", "output"}}}
         IN IF HasCycleRaises(nodes, edges) THEN Raised("KeyError")
            ELSE FlowValidationResult(errors = <<>>, errors, warnings)

\* ---------------------------------------------------- insertion-ordered dicts

\* `inputs` is a Python dict whose iteration order is its insertion order:
\* a sequence of [key, value] entries with distinct keys
HasKey(d, k) == \E i \in 1..Len(d) : d[i].key = k

Lookup(d, k, default) ==
    IF HasKey(d, k) THEN d[CHOOSE i \in 1..Len(d) : d[i].key = k].value ELSE default

\* d[k] = v: replace in place, or insert at the end
DictSet(d, k, v) ==
    IF HasKey(d, k)
    THEN [i \in 1..Len(d) |-> IF d[i].key = k THEN [key |-> k, value |-> v] ELSE d[i]]
    ELSE Append(d, [key |-> k, value |-> v])

\* inputs["__variables__"] holds a reference to the one flow_variables dict,
\* not a copy of it
VariablesRef == <<"<flow_variables>">>

\* a dict used where a data value is expected
RECURSIVE DictValueBody(_)
DictValueBody(d) ==
    IF d = <<>> THEN <<>>
    ELSE <<Head(d).key, "<:>">> \o Head(d).value \o <<"<;>">> \o DictValueBody(Tail(d))

DictValue(d) == <<"<dict>">> \o DictValueBody(d) \o <<"</dict>">>

\* isinstance(v, dict) of a data value
IsDict(v) == v # <<>> /\ Head(v) = "<dict>"

\* how many dicts are open at position i of a data value
Depth(v, i) ==
    Cardinality({j \in 1..i : v[j] = "<dict>"}) - Cardinality({j \in 1..i : v[j] = "</dict>"})

\* where the top-level key k of a dict value stands
KeyAt(v, k) ==
    {i \in 1..(Len(v) - 1) : v[i] = k /\ v[i + 1] = "<:>" /\ Depth(v, i) = 1}

\* `k in v` for a data value that may be a dict
DictHasKey(v, k) == IsDict(v) /\ KeyAt(v, k) # {}

\* v[k] of a dict value that has the key
DictItem(v, k) ==
    LET i == CHOOSE x \in KeyAt(v, k) : TRUE
        j == CHOOSE x \in (i + 2)..Len(v) :
                /\ v[x] = "<;>" /\ Depth(v, x) = 1
                /\ \A y \in (i + 2)..(x - 1) : ~(v[y] = "<;>" /\ Depth(v, y) = 1)
    IN SubSeq(v, i + 2, j - 1)

\* ------------------------------------------------------------ edge routing

\* the loop over incoming_edges in _get_node_inputs; `isinstance(output_data,
\* dict) and "outputHandle" in output_data` holds of a conditional's result
\* dict and of any other output that is a dict with that key
RECURSIVE CollectInputs(_, _, _)
CollectInputs(incoming_edges, node_outputs, inputs) ==
    IF incoming_edges = <<>> THEN inputs
    ELSE LET edge == Head(incoming_edges)
             source_handle == Get(edge, "sourceHandle", "output")
             target_handle == Get(edge, "targetHandle", "input")
             next ==
                 IF edge.source \notin DOMAIN node_outputs THEN inputs
                 ELSE LET output_data == node_outputs[edge.source]
                      IN IF "outputHandle" \in DOMAIN output_data
                         THEN IF source_handle = output_data.outputHandle
                              THEN DictSet(inputs, target_handle, output_data.output)
                              ELSE inputs
                         ELSE IF DictHasKey(output_data.value, "outputHandle")
                         THEN IF <<source_handle>> = DictItem(output_data.value, "outputHandle")
                              THEN DictSet(inputs, target_handle,
                                           DictItem(output_data.value, "output"))
                              ELSE inputs
                         ELSE DictSet(inputs, target_handle, output_data.value)
         IN CollectInputs(Tail(incoming_edges), node_outputs, next)

\* a node output that is not a conditional's result dict
Plain(v) == [value |-> v]

_get_node_inputs(node_id, edges, node_outputs) ==
    LET incoming_edges == SelectSeq(edges, LAMBDA e : e.target = node_id)
        inputs == CollectInputs(incoming_edges, node_outputs, <<>>)
    IN IF Len(inputs) = 1 /\ ~HasKey(inputs, "input")
       THEN DictSet(inputs, "input", inputs[1].value)
       ELSE inputs

\* -------------------------------------------------------------- executors

Whitespace == {" ", "\n", "\t"}

\* not s.strip()
IsBlank(s) == \A i \in 1..Len(s) : s[i] \in Whitespace

\* str.lower() on the letters the model uses
LowerChar(c) ==
    CASE c = "X" -> "x"
      [] c = "Y" -> "y"
      [] c = "A" -> "a"
      [] c = "B" -> "b"
      [] c = "H" -> "h"
      [] c = "I" -> "i"
      [] OTHER -> c

Lower(s) == [i \in 1..Len(s) |-> LowerChar(s[i])]

\* str.upper() on the letters the model uses
UpperChar(c) ==
    CASE c = "x" -> "X"
      [] c = "y" -> "Y"
      [] c = "a" -> "A"
      [] c = "b" -> "B"
      [] c = "h" -> "H"
      [] c = "i" -> "I"
      [] OTHER -> c

Upper(s) == [i \in 1..Len(s) |-> UpperChar(s[i])]

\* a cased character
IsLetter(c) == LowerChar(c) # c \/ UpperChar(c) # c

\* str.title(): a letter is upper case after a character that is no letter,
\* lower case after a letter
Title(s) ==
    [i \in 1..Len(s) |->
        IF i > 1 /\ IsLetter(s[i - 1]) THEN LowerChar(s[i]) ELSE UpperChar(s[i])]

\* sub in s
Contains(sub, s) ==
    \E i \in 0..(Len(s) - Len(sub)) : SubSeq(s, i + 1, i + Len(sub)) = sub

StartsWith(s, prefix) ==
    Len(prefix) <= Len(s) /\ SubSeq(s, 1, Len(prefix)) = prefix

EndsWith(s, suffix) ==
    Len(suffix) <= Len(s) /\ SubSeq(s, Len(s) - Len(suffix) + 1, Len(s)) = suffix

\* str.strip(): without the leading and trailing whitespace
RECURSIVE LStrip(_)
LStrip(s) == IF s # <<>> /\ Head(s) \in Whitespace THEN LStrip(Tail(s)) ELSE s

RECURSIVE RStrip(_)
RStrip(s) == IF s # <<>> /\ s[Len(s)] \in Whitespace THEN RStrip(SubSeq(s, 1, Len(s) - 1)) ELSE s

Strip(s) == RStrip(LStrip(s))

\* the decimal digits, the digit d at position d + 1
DigitChars == <<"0", "1", "2", "3", "4", "5", "6", "7", "8", "9">>

IsDigit(c) == \E d \in 1..10 : DigitChars[d] = c

DigitValue(c) == (CHOOSE d \in 1..10 : DigitChars[d] = c) - 1

\* the number a sequence of digits denotes
RECURSIVE IntOf(_)
IntOf(ds) ==
    IF ds = <<>> THEN 0
    ELSE IntOf(SubSeq(ds, 1, Len(ds) - 1)) * 10 + DigitValue(ds[Len(ds)])

RECURSIVE Pow10(_)
Pow10(e) == IF e = 0 THEN 1 ELSE 10 * Pow10(e - 1)

\* float(v) on a value written with digits, "." and surrounding whitespace:
\* the number n / 10^e, or ValueError (ok = FALSE); None and dict values
\* raise TypeError, which the callers treat alike
ParseFloat(v) ==
    LET t == Strip(v)
        dots == {i \in 1..Len(t) : t[i] = "."}
    IN IF /\ IsDict(v) = FALSE
          /\ v # None
          /\ \A i \in 1..Len(t) : IsDigit(t[i]) \/ t[i] = "."
          /\ Cardinality(dots) <= 1
          /\ \E i \in 1..Len(t) : IsDigit(t[i])
       THEN [ok |-> TRUE,
             n |-> IntOf(SelectSeq(t, IsDigit)),
             e |-> IF dots = {} THEN 0 ELSE Len(t) - (CHOOSE i \in dots : TRUE)]
       ELSE [ok |-> FALSE]

\* int(s) on a string written with digits and surrounding whitespace
ParseInt(s) ==
    LET t == Strip(s)
    IN IF t # <<>> /\ \A i \in 1..Len(t) : IsDigit(t[i])
       THEN [ok |-> TRUE, n |-> IntOf(t)]
       ELSE [ok |-> FALSE]

\* re.compile raises re.error; of the metacharacters the patterns of the
\* model use "." and "(", and a "(" is never closed
RegexInvalid(pattern) == \E i \in 1..Len(pattern) : pattern[i] = "("

\* re.search(pattern, s) for a pattern of literal characters and "."
RegexSearch(pattern, s) ==
    \E i \in 0..(Len(s) - Len(pattern)) :
        \A k \in 1..Len(pattern) : pattern[k] = "." \/ pattern[k] = s[i + k]

\* compare_value of one round of the loop over conditions
CompareValue(condition, case_sensitive) ==
    IF case_sensitive THEN Str(Get(condition, "value", EmptyStr))
    ELSE Lower(Str(Get(condition, "value", EmptyStr)))

\* one round of the loop over conditions that returns the error of an
\* invalid regex
ConditionRaises(condition, case_sensitive) ==
    /\ Get(condition, "operator", NoName) = "regex"
    /\ RegexInvalid(CompareValue(condition, case_sensitive))

\* a numeric comparison that takes a value that is not a number as zero
NumericMatches_ZeroDefault(operator, input_value, compare_value) ==
    LET input_num == IF ParseFloat(input_value).ok THEN ParseFloat(input_value)
                     ELSE [ok |-> TRUE, n |-> 0, e |-> 0]
        compare_num == IF ParseFloat(compare_value).ok THEN ParseFloat(compare_value)
                       ELSE [ok |-> TRUE, n |-> 0, e |-> 0]
        l == input_num.n * Pow10(compare_num.e)
        r == compare_num.n * Pow10(input_num.e)
    IN CASE operator = "greater_than" -> l > r
         [] operator = "less_than" -> l < r
         [] OTHER -> l = r

\* the branch of greater_than, less_than and equals_number: `continue` on
\* ValueError or TypeError leaves the condition unmatched
NumericMatches(operator, input_value, compare_value) ==
    LET input_num == ParseFloat(input_value)
        compare_num == ParseFloat(compare_value)
    IN IF ~input_num.ok \/ ~compare_num.ok THEN FALSE
       ELSE LET l == input_num.n * Pow10(compare_num.e)
                r == compare_num.n * Pow10(input_num.e)
            IN CASE operator = "greater_than" -> l > r
                 [] operator = "less_than" -> l < r
                 [] OTHER -> l = r

\* one round of the loop over conditions: `matched`
ConditionMatches(condition, input_value, input_str, case_sensitive) ==
    LET compare_value == CompareValue(condition, case_sensitive)
        operator == Get(condition, "operator", NoName)
    IN CASE operator = "contains" -> Contains(compare_value, input_str)
         [] operator = "equals" -> input_str = compare_value
         [] operator = "starts_with" -> StartsWith(input_str, compare_value)
         [] operator = "ends_with" -> EndsWith(input_str, compare_value)
         [] operator = "regex" -> RegexSearch(compare_value, input_str)
         [] operator \in {"greater_than", "less_than", "equals_number"} ->
                NumericMatches(operator, input_value, compare_value)
         [] operator = "is_empty" -> IsBlank(input_str)
         [] operator = "is_not_empty" -> ~IsBlank(input_str)
         [] operator \in {"length_greater_than", "length_less_than"} ->
                /\ ParseInt(compare_value).ok
                /\ IF operator = "length_greater_than"
                   THEN Len(input_str) > ParseInt(compare_value).n
                   ELSE Len(input_str) < ParseInt(compare_value).n
         [] OTHER -> FALSE

\* the position of the condition at which the loop over conditions returns,
\* with a match or with the error of an invalid regex; 0 when it runs to its
\* end
RECURSIVE FirstMatch(_, _, _, _)
FirstMatch(conditions, input_value, input_str, case_sensitive) ==
    IF conditions = <<>> THEN 0
    ELSE IF \/ ConditionRaises(Head(conditions), case_sensitive)
            \/ ConditionMatches(Head(conditions), input_value, input_str, case_sensitive)
         THEN 1
    ELSE LET r == FirstMatch(Tail(conditions), input_value, input_str, case_sensitive)
         IN IF r = 0 THEN 0 ELSE r + 1

\* ConditionalExecutor.execute
ConditionalExecute(node_data, inputs) ==
    LET input_value == Lookup(inputs, "input", EmptyStr)
        conditions == Get(node_data, "conditions", <<>>)
        default_handle == Get(node_data, "defaultOutputHandle", "default")
        case_sensitive == Get(node_data, "caseSensitive", FALSE)
        input_str == IF case_sensitive THEN Str(input_value) ELSE Lower(Str(input_value))
        m == FirstMatch(conditions, input_value, input_str, case_sensitive)
    IN IF m = 0
       THEN [success |-> TRUE, output |-> input_value,
             outputHandle |-> default_handle, matchedCondition |-> "default"]
       ELSE IF ConditionRaises(conditions[m], case_sensitive)
       THEN [success |-> FALSE, error |-> "Invalid regex"]
       ELSE [success |-> TRUE, output |-> input_value,
             outputHandle |-> conditions[m].outputHandle,
             matchedCondition |-> Get(conditions[m], "label", conditions[m].outputHandle)]

\* a setter that takes its value from the input whatever valueSource says
VariableSetExecute_AlwaysInput(node_data, inputs) ==
    LET variable_name == Get(node_data, "variableName", NoName)
        value == Lookup(inputs, "input", None)
    IN IF variable_name = NoName
       THEN [success |-> FALSE, error |-> "Variable name is required"]
       ELSE [success |-> TRUE, output |-> value,
             setVariable |-> [name |-> variable_name, value |-> value]]

\* VariableSetExecutor.execute
VariableSetExecute(node_data, inputs) ==
    LET variable_name == Get(node_data, "variableName", NoName)
        value == IF Get(node_data, "valueSource", "input") = "static"
                 THEN Get(node_data, "staticValue", None)
                 ELSE Lookup(inputs, "input", None)
    IN IF variable_name = NoName
       THEN [success |-> FALSE, error |-> "Variable name is required"]
       ELSE [success |-> TRUE, output |-> value,
             setVariable |-> [name |-> variable_name, value |-> value]]

\* VariableGetExecutor.execute; `variables` is what inputs["__variables__"]
\* refers to when the executor runs
VariableGetExecute(node_data, inputs, variables) ==
    LET variable_name == Get(node_data, "variableName", NoName)
    IN IF variable_name = NoName
       THEN [success |-> FALSE, error |-> "Variable name is required"]
       ELSE [success |-> TRUE,
             output |-> Get(variables, variable_name, Get(node_data, "fallbackValue", None))]

\* a list used where a data value is expected
RECURSIVE ListValueBody(_)
ListValueBody(vs) ==
    IF vs = <<>> THEN <<>> ELSE Head(vs) \o <<"<,>">> \o ListValueBody(Tail(vs))

ListValue(vs) == <<"<list>">> \o ListValueBody(vs) \o <<"</list>">>

\* the pieces of a text between the occurrences of a separator
RECURSIVE SplitAt(_, _)
SplitAt(s, sep) ==
    IF \A i \in 1..Len(s) : s[i] # sep THEN <<s>>
    ELSE LET i == CHOOSE x \in 1..Len(s) : s[x] = sep /\ \A y \in 1..(x - 1) : s[y] # sep
         IN <<SubSeq(s, 1, i - 1)>> \o SplitAt(SubSeq(s, i + 1, Len(s)), sep)

Quote == "\""

\* a JSON number of one digit or a JSON string without escapes
JsonScalar(t) ==
    IF Len(t) = 1 /\ IsDigit(t[1]) THEN [ok |-> TRUE, value |-> t]
    ELSE IF /\ Len(t) >= 2 /\ t[1] = Quote /\ t[Len(t)] = Quote
            /\ \A i \in 2..(Len(t) - 1) : t[i] # Quote
         THEN [ok |-> TRUE, value |-> SubSeq(t, 2, Len(t) - 1)]
    ELSE [ok |-> FALSE]

\* "k": scalar, with a key of one character
JsonMember(t) ==
    IF /\ Len(t) >= 5 /\ t[1] = Quote /\ t[3] = Quote /\ t[4] = ":"
       /\ JsonScalar(SubSeq(t, 5, Len(t))).ok
    THEN [ok |-> TRUE, key |-> t[2], value |-> JsonScalar(SubSeq(t, 5, Len(t))).value]
    ELSE [ok |-> FALSE]

\* the dict of the members of an object, a later member replacing an earlier
\* one of the same key
RECURSIVE JsonMembers(_, _)
JsonMembers(parts, acc) ==
    IF parts = <<>> THEN acc
    ELSE JsonMembers(Tail(parts),
                     DictSet(acc, JsonMember(Head(parts)).key, JsonMember(Head(parts)).value))

\* json.loads of a text without whitespace that is a scalar or an object of
\* scalars; anything else the model hands it is not JSON
JsonLoads(text) ==
    IF text = None \/ IsDict(text) THEN [ok |-> FALSE, error |-> "TypeError"]
    ELSE IF JsonScalar(text).ok
    THEN [ok |-> TRUE, object |-> FALSE, value |-> JsonScalar(text).value]
    ELSE IF Len(text) >= 2 /\ text[1] = "{" /\ text[Len(text)] = "}"
    THEN LET body == SubSeq(text, 2, Len(text) - 1)
             parts == IF body = <<>> THEN <<>> ELSE SplitAt(body, ",")
         IN IF \A i \in 1..Len(parts) : JsonMember(parts[i]).ok
            THEN [ok |-> TRUE, object |-> TRUE, members |-> JsonMembers(parts, <<>>)]
            ELSE [ok |-> FALSE, error |-> "Invalid JSON"]
    ELSE [ok |-> FALSE, error |-> "Invalid JSON"]

\* the parsed document as a data value
JsonValue(data) == IF data.object THEN DictValue(data.members) ELSE data.value

\* jp.parse(path) raises: the model's paths are $, $.name and $.*, and a path
\* of any other form is one that jsonpath_ng rejects
PathInvalid(path) ==
    ~ \/ path = <<"$">>
      \/ Len(path) = 3 /\ path[1] = "$" /\ path[2] = "." /\ path[3] \notin {"$", ".", "["}

\* [match.value for match in jsonpath_expr.find(data)]
PathFind(path, data) ==
    IF path = <<"$">> THEN <<JsonValue(data)>>
    ELSE IF ~data.object THEN <<>>
    ELSE IF path[3] = "*" THEN [i \in 1..Len(data.members) |-> data.members[i].value]
    ELSE IF HasKey(data.members, path[3]) THEN <<Lookup(data.members, path[3], None)>>
    ELSE <<>>

\* the loop over extractions: results and errors
RECURSIVE ExtractLoop(_, _, _, _, _)
ExtractLoop(extractions, data, strict_mode, output_format, acc) ==
    IF extractions = <<>> THEN acc
    ELSE LET extraction == Head(extractions)
             key == Get(extraction, "key", "None")
             path == Get(extraction, "path", <<"$">>)
             fallback == Get(extraction, "fallback", None)
             next ==
                 IF PathInvalid(path)
                 THEN IF strict_mode
                      THEN [acc EXCEPT !.errors = Append(@, "Error extracting")]
                      ELSE [acc EXCEPT !.results = DictSet(@, key, fallback)]
                 ELSE LET matches == PathFind(path, data)
                      IN IF matches # <<>>
                         THEN [acc EXCEPT !.results =
                                  DictSet(@, key, IF output_format = "array"
                                                  THEN ListValue(matches) ELSE matches[1])]
                         ELSE IF fallback # None
                         THEN [acc EXCEPT !.results = DictSet(@, key, fallback)]
                         ELSE IF strict_mode
                         THEN [acc EXCEPT !.errors = Append(@, "Path not found")]
                         ELSE [acc EXCEPT !.results = DictSet(@, key, None)]
         IN ExtractLoop(Tail(extractions), data, strict_mode, output_format, next)

\* an executor that returns the single value whenever there is one result
\* and the format is not array
ExtractorOutput_SingleUnlessArray(results, output_format) ==
    IF output_format = "array" \/ Len(results) # 1
    THEN [success |-> TRUE, output |-> DictValue(results)]
    ELSE [success |-> TRUE, output |-> results[1].value]

\* `results if output_format != "flat" or len(results) > 1 else
\* list(results.values())[0]`, whose IndexError the outer except turns into
\* an error
ExtractorOutput(results, output_format) ==
    IF output_format # "flat" \/ Len(results) > 1
    THEN [success |-> TRUE, output |-> DictValue(results)]
    ELSE IF results = <<>>
    THEN [success |-> FALSE, error |-> "list index out of range"]
    ELSE [success |-> TRUE, output |-> results[1].value]

\* JsonExtractorExecutor.execute; the error of several failed extractions is
\* their messages joined, of which the model keeps the first
JsonExtractorExecute(node_data, inputs) ==
    LET json_input == Lookup(inputs, "input", EmptyStr)
        extractions == Get(node_data, "extractions", <<>>)
        strict_mode == Get(node_data, "strictMode", FALSE)
        output_format == Get(node_data, "outputFormat", "object")
        data == JsonLoads(json_input)
    IN IF ~data.ok THEN [success |-> FALSE, error |-> data.error]
       ELSE LET r == ExtractLoop(extractions, data, strict_mode, output_format,
                                 [results |-> <<>>, errors |-> <<>>])
            IN IF r.errors # <<>>
               THEN [success |-> FALSE, error |-> r.errors[1], output |-> DictValue(r.results)]
               ELSE ExtractorOutput(r.results, output_format)

\* the keys of a dict value, in its order
DictKeys(v) ==
    LET at == {i \in 1..(Len(v) - 1) : v[i + 1] = "<:>" /\ Depth(v, i) = 1}
    IN [j \in 1..Cardinality(at) |->
           v[CHOOSE i \in at : Cardinality({h \in at : h <= i}) = j]]

\* the dict with the items of a dict value
DictOf(v) == [j \in 1..Len(DictKeys(v)) |->
                 [key |-> DictKeys(v)[j], value |-> DictItem(v, DictKeys(v)[j])]]

\* str(dict) of a dict of strings: {'k': 'v', ...}
RECURSIVE ReprItems(_)
ReprItems(d) ==
    IF d = <<>> THEN <<>>
    ELSE <<"'", Head(d).key, "'", ":", " ", "'">> \o Head(d).value \o <<"'">>
         \o (IF Len(d) > 1 THEN <<",", " ">> ELSE <<>>) \o ReprItems(Tail(d))

\* str(value) of a string, of None and of a dict of strings
StrOf(v) == IF IsDict(v) THEN <<"{">> \o ReprItems(DictOf(v)) \o <<"}">> ELSE Str(v)

\* k.startswith("__") for the keys the model uses
IsSpecialKey(k) == k \in {"__variables__", "__ctx"}

\* an executor that merges every input it is handed
MergeInputData_All(inputs) == inputs

\* input_data: the inputs without the keys that start with "__"
MergeInputData(inputs) == SelectSeq(inputs, LAMBDA e : ~IsSpecialKey(e.key))

\* result.update(value) for each value, in order
RECURSIVE FlattenInto(_, _)
FlattenInto(values, acc) ==
    IF values = <<>> THEN acc
    ELSE LET d == DictOf(Head(values))
             RECURSIVE Update(_, _)
             Update(items, a) ==
                 IF items = <<>> THEN a
                 ELSE Update(Tail(items), DictSet(a, Head(items).key, Head(items).value))
         IN FlattenInto(Tail(values), Update(d, acc))

\* result += str(value) for each value, in order
RECURSIVE ConcatValues(_)
ConcatValues(values) ==
    IF values = <<>> THEN <<>> ELSE StrOf(Head(values)) \o ConcatValues(Tail(values))

\* MergeExecutor.execute
MergeExecute(node_data, inputs) ==
    LET merge_strategy == Get(node_data, "mergeStrategy", "object")
        input_data == MergeInputData(inputs)
        values == [i \in 1..Len(input_data) |-> input_data[i].value]
    IN IF input_data = <<>> THEN [success |-> FALSE, error |-> "No inputs to merge"]
       ELSE CASE merge_strategy = "object" ->
                     [success |-> TRUE, output |-> DictValue(input_data)]
              [] merge_strategy = "flatten" ->
                     IF \A i \in 1..Len(values) : IsDict(values[i])
                     THEN [success |-> TRUE, output |-> DictValue(FlattenInto(values, <<>>))]
                     ELSE [success |-> FALSE,
                           error |-> "flatten strategy requires all inputs to be objects"]
              [] merge_strategy = "array" -> [success |-> TRUE, output |-> ListValue(values)]
              [] merge_strategy = "concat" -> [success |-> TRUE, output |-> ConcatValues(values)]
              [] merge_strategy = "first" -> [success |-> TRUE, output |-> values[1]]
              [] merge_strategy = "last" -> [success |-> TRUE, output |-> values[Len(values)]]
              [] OTHER -> [success |-> FALSE, error |-> "Unknown merge strategy"]

\* text.replace(find, replace) for a find that is not empty
RECURSIVE Replace(_, _, _)
Replace(text, find, replace) ==
    IF text = <<>> THEN <<>>
    ELSE IF StartsWith(text, find)
         THEN replace \o Replace(SubSeq(text, Len(find) + 1, Len(text)), find, replace)
         ELSE <<Head(text)>> \o Replace(Tail(text), find, replace)

\* one character of a pattern of literal characters and "." against one of
\* the text, under the flags i (IGNORECASE) and s (DOTALL)
RegexCharMatches(p, c, flags) ==
    \/ p = "." /\ (c # "\n" \/ "s" \in Range(flags))
    \/ p # "." /\ (IF "i" \in Range(flags) THEN LowerChar(p) = LowerChar(c) ELSE p = c)

\* re.sub(pattern, replace, text, flags) for such a pattern, not empty, and a
\* replacement without group references
RECURSIVE RegexSub(_, _, _, _)
RegexSub(pattern, replace, text, flags) ==
    IF text = <<>> THEN <<>>
    ELSE IF /\ Len(pattern) <= Len(text)
            /\ \A k \in 1..Len(pattern) : RegexCharMatches(pattern[k], text[k], flags)
         THEN replace \o RegexSub(pattern, replace,
                                  SubSeq(text, Len(pattern) + 1, Len(text)), flags)
         ELSE <<Head(text)>> \o RegexSub(pattern, replace, Tail(text), flags)

\* text.split(delimiter, max_splits) for a delimiter that is not empty;
\* a negative max_splits is no limit
RECURSIVE Split(_, _, _)
Split(text, delimiter, max_splits) ==
    IF max_splits = 0 \/ ~Contains(delimiter, text) THEN <<text>>
    ELSE LET i == CHOOSE x \in 0..(Len(text) - Len(delimiter)) :
                      /\ SubSeq(text, x + 1, x + Len(delimiter)) = delimiter
                      /\ \A y \in 0..(x - 1) :
                            SubSeq(text, y + 1, y + Len(delimiter)) # delimiter
         IN <<SubSeq(text, 1, i)>>
            \o Split(SubSeq(text, i + Len(delimiter) + 1, Len(text)), delimiter,
                     IF max_splits > 0 THEN max_splits - 1 ELSE max_splits)

\* delimiter.join(parts)
RECURSIVE Join(_, _)
Join(delimiter, parts) ==
    IF parts = <<>> THEN <<>>
    ELSE IF Len(parts) = 1 THEN parts[1]
    ELSE parts[1] \o delimiter \o Join(delimiter, Tail(parts))

\* repr of a string without quotes and backslashes
RECURSIVE ReprChars(_)
ReprChars(t) ==
    IF t = <<>> THEN <<>>
    ELSE (CASE Head(t) = "\n" -> <<"\\", "n">>
            [] Head(t) = "\t" -> <<"\\", "t">>
            [] OTHER -> <<Head(t)>>) \o ReprChars(Tail(t))

\* str(parts) of a list of such strings
ReprList(parts) ==
    <<"[">> \o Join(<<",", " ">>,
                    [i \in 1..Len(parts) |-> <<"'">> \o ReprChars(parts[i]) \o <<"'">>])
    \o <<"]">>

\* where the slice index i falls in a text of length n
SliceIndex(i, n) == IF i < 0 THEN (IF n + i < 0 THEN 0 ELSE n + i) ELSE (IF i > n THEN n ELSE i)

\* text[start:end]; end = n for text[start:]
Slice(text, start, end) ==
    SubSeq(text, SliceIndex(start, Len(text)) + 1, SliceIndex(end, Len(text)))

\* re.sub(r"\s+", replace, text) for replace "" and " "
RECURSIVE SubWhitespace(_, _)
SubWhitespace(text, replace) ==
    IF text = <<>> THEN <<>>
    ELSE IF Head(text) \in Whitespace
         THEN replace \o SubWhitespace(LStrip(text), replace)
         ELSE <<Head(text)>> \o SubWhitespace(Tail(text), replace)

\* str(op_type) as the error messages show it
TypeName(op_type) == IF op_type = NoName THEN "None" ELSE op_type

\* TextTransformerExecutor._apply_operation: the text it returns, or the
\* message of the exception it raises
_apply_operation(text, op_type, config) ==
    CASE op_type = "trim" -> [ok |-> TRUE, text |-> Strip(text)]
      [] op_type = "uppercase" -> [ok |-> TRUE, text |-> Upper(text)]
      [] op_type = "lowercase" -> [ok |-> TRUE, text |-> Lower(text)]
      [] op_type = "capitalize" -> [ok |-> TRUE, text |-> Title(text)]
      [] op_type = "replace" ->
             IF Get(config, "find", EmptyStr) = EmptyStr
             THEN [ok |-> FALSE, error |-> "'find' value is required for replace operation"]
             ELSE [ok |-> TRUE,
                   text |-> Replace(text, config.find, Get(config, "replace", EmptyStr))]
      [] op_type = "regex_replace" ->
             IF Get(config, "pattern", EmptyStr) = EmptyStr
             THEN [ok |-> FALSE, error |-> "'pattern' is required for regex_replace operation"]
             ELSE IF RegexInvalid(config.pattern)
             THEN [ok |-> FALSE, error |-> "missing ), unterminated subpattern"]
             ELSE [ok |-> TRUE,
                   text |-> RegexSub(config.pattern, Get(config, "replace", EmptyStr), text,
                                     Get(config, "flags", EmptyStr))]
      [] op_type = "split" ->
             IF Get(config, "delimiter", <<",">>) = EmptyStr
             THEN [ok |-> FALSE, error |-> "empty separator"]
             ELSE LET parts == Split(text, Get(config, "delimiter", <<",">>),
                                     Get(config, "maxSplits", -1))
                  IN IF Get(config, "outputFormat", "array") = "array"
                     THEN [ok |-> TRUE, text |-> ReprList(parts)]
                     ELSE [ok |-> TRUE, text |-> Join(<<"\n">>, parts)]
      [] op_type = "join" ->
             [ok |-> TRUE,
              text |-> Join(Get(config, "delimiter", EmptyStr), Split(text, <<"\n">>, -1))]
      [] op_type = "substring" ->
             [ok |-> TRUE,
              text |-> Slice(text, Get(config, "start", 0), Get(config, "end", Len(text)))]
      [] op_type = "prefix" -> [ok |-> TRUE, text |-> Get(config, "value", EmptyStr) \o text]
      [] op_type = "suffix" -> [ok |-> TRUE, text |-> text \o Get(config, "value", EmptyStr)]
      [] op_type = "remove_whitespace" ->
             LET mode == Get(config, "mode", "all")
             IN [ok |-> TRUE,
                 text |-> CASE mode = "all" -> SubWhitespace(text, <<>>)
                            [] mode = "extra" -> Strip(SubWhitespace(text, <<" ">>))
                            [] mode = "leading" -> LStrip(text)
                            [] mode = "trailing" -> RStrip(text)
                            [] OTHER -> Strip(text)]
      [] OTHER -> [ok |-> FALSE, error |-> "Unknown operation type: " \o TypeName(op_type)]

\* a loop that applies the disabled operations too
RECURSIVE TransformLoop_AllOperations(_, _)
TransformLoop_AllOperations(operations, result) ==
    IF operations = <<>> THEN [success |-> TRUE, output |-> result]
    ELSE LET operation == Head(operations)
             op_type == Get(operation, "type", NoName)
             applied == _apply_operation(result, op_type, Get(operation, "config", EmptyDict))
         IN IF ~applied.ok
            THEN [success |-> FALSE,
                  error |-> "Operation '" \o TypeName(op_type)
                            \o "' failed: " \o applied.error]
            ELSE TransformLoop_AllOperations(Tail(operations), applied.text)

\* the loop over operations of TextTransformerExecutor.execute
RECURSIVE TransformLoop(_, _)
TransformLoop(operations, result) ==
    IF operations = <<>> THEN [success |-> TRUE, output |-> result]
    ELSE LET operation == Head(operations)
             op_type == Get(operation, "type", NoName)
             applied == _apply_operation(result, op_type, Get(operation, "config", EmptyDict))
         IN IF ~Get(operation, "enabled", TRUE) THEN TransformLoop(Tail(operations), result)
            ELSE IF ~applied.ok
            THEN [success |-> FALSE,
                  error |-> "Operation '" \o TypeName(op_type)
                            \o "' failed: " \o applied.error]
            ELSE TransformLoop(Tail(operations), applied.text)

\* TextTransformerExecutor.execute
TextTransformerExecute(node_data, inputs) ==
    LET operations == Get(node_data, "operations", <<>>)
        input_value == StrOf(Lookup(inputs, "input", EmptyStr))
    IN IF operations = <<>> THEN [success |-> FALSE, error |-> "No operations configured"]
       ELSE TransformLoop(operations, input_value)

\* bound: how many different replies the AI service can stream
MaxResponses == 1

\* the replies of the AI service: "r", "rr", ...
AIResponses == {[j \in 1..i |-> "r"] : i \in 1..MaxResponses}

\* what the external AI service does during one LLMExecutor.execute call:
\* validate_model_id says no, the stream raises, or the stream delivers a reply
AIBehaviours ==
    {[valid |-> FALSE, raises |-> FALSE, response |-> EmptyStr],
     [valid |-> TRUE, raises |-> TRUE, response |-> EmptyStr]}
    \cup {[valid |-> TRUE, raises |-> FALSE, response |-> r] : r \in AIResponses}

\* prompt_template.replace("{{input}}", str(input_text)); the template is a
\* sequence of characters in which the placeholder is one element
RECURSIVE RenderPrompt(_, _)
RenderPrompt(template, input_text) ==
    IF template = <<>> THEN <<>>
    ELSE (IF Head(template) = "{{input}}" THEN Str(input_text) ELSE <<Head(template)>>)
         \o RenderPrompt(Tail(template), input_text)

\* LLMExecutor.execute against one behaviour of the AI service
LLMExecute(node_data, inputs, ai) ==
    LET prompt == RenderPrompt(Get(node_data, "userPromptTemplate", <<"{{input}}">>),
                               Lookup(inputs, "input", EmptyStr))
    IN IF ~ai.valid THEN [success |-> FALSE, error |-> "Invalid model ID"]
       ELSE IF IsBlank(prompt) THEN [success |-> FALSE, error |-> "Prompt is empty"]
       ELSE IF ai.raises THEN [success |-> FALSE, error |-> "AI service error"]
       ELSE [success |-> TRUE, output |-> ai.response]

\* NodeExecutorRegistry._executors after the register calls
RegisteredTypes ==
    {"json_extractor", "llm", "conditional", "image_gen", "variable_get",
     "variable_set", "text_transformer", "template", "merge"}

\* the type tags a FlowNode can carry
NodeTypes ==
    {"input", "llm", "output", "json_extractor", "conditional", "image_gen",
     "image_output", "text_transformer", "http_request", "variable_get",
     "variable_set", "delay", "merge", "code", "template"}

\* NodeExecutorRegistry.get_executor: an instance of the registered class, or
\* ValueError("No executor registered for node type: ...")
get_executor(node_type) ==
    IF node_type \in RegisteredTypes THEN [executor |-> node_type]
    ELSE Raised("ValueError")

\* FlowExecutionService.execute_node; `variables` is the dict that
\* inputs["__variables__"] refers to at the time of the call
execute_node(node_type, node_data, inputs, variables, ai) ==
    CASE node_type \notin RegisteredTypes ->
             [success |-> FALSE, error |-> "No executor registered for node type"]
      [] node_type = "llm" -> LLMExecute(node_data, inputs, ai)
      [] node_type = "conditional" -> ConditionalExecute(node_data, inputs)
      [] node_type = "variable_set" -> VariableSetExecute(node_data, inputs)
      [] node_type = "json_extractor" -> JsonExtractorExecute(node_data, inputs)
      [] node_type = "merge" -> MergeExecute(node_data, inputs)
      [] node_type = "text_transformer" -> TextTransformerExecute(node_data, inputs)
      [] node_type = "variable_get" ->
             VariableGetExecute(node_data, inputs,
                 IF HasKey(inputs, "__variables__") THEN variables ELSE EmptyDict)

\* ------------------------------------------------------------------ flows

OutputTypes == {"output", "image_output"}

PromptOfInput == <<"{{input}}">>

\* the data of an llm node that passes _validate_node
LlmData(template) ==
    [provider |-> "openrouter", model |-> "m", userPromptTemplate |-> template]

\* in -> s (variable_set v := input), in -> g0 (variable_get v), s -> g
\* (variable_get v) -> out: levels [in], [s, g0], [g], [out]
VariableFlow ==
    [nodes |-> <<
        [id |-> "in", type |-> "input", data |-> [variableName |-> "q", value |-> <<"d">>]],
        [id |-> "s", type |-> "variable_set", data |-> [variableName |-> "v", valueSource |-> "input"]],
        [id |-> "g0", type |-> "variable_get", data |-> [variableName |-> "v", fallbackValue |-> <<"f">>]],
        [id |-> "g", type |-> "variable_get", data |-> [variableName |-> "v", fallbackValue |-> <<"f">>]],
        [id |-> "out", type |-> "output", data |-> [format |-> "text"]] >>,
     edges |-> <<
        [source |-> "in", target |-> "s"],
        [source |-> "in", target |-> "g0"],
        [source |-> "s", target |-> "g"],
        [source |-> "g", target |-> "out"] >>]

\* in -> c (conditional: contains "x" -> h1, else default); c.h1 -> t1 (llm),
\* c.default -> t2 (llm); t1 -> out.input, t2 -> out.alt
ConditionalFlow ==
    [nodes |-> <<
        [id |-> "in", type |-> "input", data |-> [variableName |-> "q", value |-> <<"d">>]],
        [id |-> "c", type |-> "conditional",
         data |-> [conditions |-> <<[operator |-> "contains", value |-> <<"X">>,
                                     outputHandle |-> "h1"]>>,
                   defaultOutputHandle |-> "default"]],
        [id |-> "t1", type |-> "llm", data |-> LlmData(PromptOfInput)],
        [id |-> "t2", type |-> "llm", data |-> LlmData(<<"p", " ">> \o PromptOfInput)],
        [id |-> "out", type |-> "output", data |-> [format |-> "text"]] >>,
     edges |-> <<
        [source |-> "in", target |-> "c"],
        [source |-> "c", target |-> "t1", sourceHandle |-> "h1"],
        [source |-> "c", target |-> "t2", sourceHandle |-> "default"],
        [source |-> "t1", target |-> "out"],
        [source |-> "t2", target |-> "out", targetHandle |-> "alt"] >>]

\* in -> a (llm) -> oa, in -> b (llm) -> ob: levels [in], [a, b], [oa, ob]
FanOutFlow ==
    [nodes |-> <<
        [id |-> "in", type |-> "input", data |-> [variableName |-> "q", value |-> <<"d">>]],
        [id |-> "a", type |-> "llm", data |-> LlmData(PromptOfInput)],
        [id |-> "b", type |-> "llm", data |-> LlmData(PromptOfInput)],
        [id |-> "oa", type |-> "output", data |-> [format |-> "text"]],
        [id |-> "ob", type |-> "output", data |-> [format |-> "text"]] >>,
     edges |-> <<
        [source |-> "in", target |-> "a"],
        [source |-> "in", target |-> "b"],
        [source |-> "a", target |-> "oa"],
        [source |-> "b", target |-> "ob"] >>]

\* in -> a (llm) -> in2 (an input node with an incoming edge) -> out
RelayFlow ==
    [nodes |-> <<
        [id |-> "in", type |-> "input", data |-> [variableName |-> "q", value |-> <<"d">>]],
        [id |-> "a", type |-> "llm", data |-> LlmData(PromptOfInput)],
        [id |-> "in2", type |-> "input", data |-> [value |-> <<"e">>]],
        [id |-> "out", type |-> "output", data |-> [format |-> "text"]] >>,
     edges |-> <<
        [source |-> "in", target |-> "a"],
        [source |-> "a", target |-> "in2"],
        [source |-> "in2", target |-> "out"] >>]

\* in -> c (conditional: contains "x" -> h1, else default); c.h1 -> o1,
\* c.default -> o2, two output nodes: levels [in], [c], [o1, o2]
BranchOutFlow ==
    [nodes |-> <<
        [id |-> "in", type |-> "input", data |-> [variableName |-> "q", value |-> <<"d">>]],
        [id |-> "c", type |-> "conditional",
         data |-> [conditions |-> <<[operator |-> "contains", value |-> <<"X">>,
                                     outputHandle |-> "h1"]>>,
                   defaultOutputHandle |-> "default"]],
        [id |-> "o1", type |-> "output", data |-> [format |-> "text"]],
        [id |-> "o2", type |-> "output", data |-> [format |-> "text"]] >>,
     edges |-> <<
        [source |-> "in", target |-> "c"],
        [source |-> "c", target |-> "o1", sourceHandle |-> "h1"],
        [source |-> "c", target |-> "o2", sourceHandle |-> "default"] >>]

\* in -> out
PassFlow ==
    [nodes |-> <<
        [id |-> "in", type |-> "input", data |-> [variableName |-> "q", value |-> <<"d">>]],
        [id |-> "out", type |-> "output", data |-> [format |-> "text"]] >>,
     edges |-> << [source |-> "in", target |-> "out"] >>]

\* in -> d (delay) -> out: a node type without a registered executor
DelayFlow ==
    [nodes |-> <<
        [id |-> "in", type |-> "input", data |-> [value |-> <<"d">>]],
        [id |-> "d", type |-> "delay", data |-> [delayMs |-> 0]],
        [id |-> "out", type |-> "output", data |-> [format |-> "text"]] >>,
     edges |-> << [source |-> "in", target |-> "d"], [source |-> "d", target |-> "out"] >>]

\* in -> s1 (variable_set v := input), in -> s2 (variable_set v := "z"),
\* s2 -> a (llm) -> out: levels [in], [s1, s2], [a], [out]
DoubleSetFlow ==
    [nodes |-> <<
        [id |-> "in", type |-> "input", data |-> [value |-> <<"d">>]],
        [id |-> "s1", type |-> "variable_set", data |-> [variableName |-> "v", valueSource |-> "input"]],
        [id |-> "s2", type |-> "variable_set",
         data |-> [variableName |-> "v", valueSource |-> "static", staticValue |-> <<"z">>]],
        [id |-> "a", type |-> "llm", data |-> LlmData(PromptOfInput)],
        [id |-> "out", type |-> "output", data |-> [format |-> "text"]] >>,
     edges |-> <<
        [source |-> "in", target |-> "s1"],
        [source |-> "in", target |-> "s2"],
        [source |-> "s2", target |-> "a"],
        [source |-> "a", target |-> "out"] >>]

\* an initialInput value that is a JSON object: {"outputHandle": "x", "output": "y"}
HandleObject ==
    DictValue(<<[key |-> "outputHandle", value |-> <<"x">>],
                [key |-> "output", value |-> <<"y">>]>>)

\* the runs explored: a flow that passes validate_flow, the initialInput and
\* the variables handed to create_execution
Runs ==
    {[flow |-> VariableFlow, initialInput |-> EmptyDict, variables |-> EmptyDict],
     [flow |-> VariableFlow, initialInput |-> EmptyDict, variables |-> [n \in {"v"} |-> <<"i">>]],
     [flow |-> ConditionalFlow, initialInput |-> [n \in {"q"} |-> <<"x", "y">>], variables |-> EmptyDict],
     [flow |-> ConditionalFlow, initialInput |-> [n \in {"q"} |-> <<"a", "b">>], variables |-> EmptyDict],
     [flow |-> FanOutFlow, initialInput |-> EmptyDict, variables |-> EmptyDict],
     [flow |-> RelayFlow, initialInput |-> EmptyDict, variables |-> EmptyDict],
     [flow |-> BranchOutFlow, initialInput |-> [n \in {"q"} |-> <<"x">>], variables |-> EmptyDict],
     [flow |-> PassFlow, initialInput |-> [n \in {"q"} |-> HandleObject], variables |-> EmptyDict],
     [flow |-> DelayFlow, initialInput |-> EmptyDict, variables |-> EmptyDict],
     [flow |-> DoubleSetFlow, initialInput |-> EmptyDict, variables |-> EmptyDict]}

\* ------------------------------------------------------------------ state

\* bound: how many cancel requests the controller accepts for the execution
MaxCancels == 1

VARIABLES
    run,              \* the flow and the arguments of create_execution
    validation,       \* what validate_flow returned for the flow
    flow_data,        \* the nodes and edges of the caller of validate_flow
    db,               \* the persisted FlowExecution row
    pc,               \* where the worker's execute_flow_task is
    execution,        \* the worker's in-memory FlowExecution
    result,           \* what execute_flow returned to execute_flow_async
    execution_levels, \* execute_flow: the levels
    level_idx,        \* execute_flow: index of the level being handled
    node_outputs,     \* execute_flow: node id -> produced value
    executed_nodes,   \* execute_flow: set of node ids
    skipped_nodes,    \* execute_flow: set of node ids
    flow_variables,   \* execute_flow: the variable store
    tasks,            \* execute_flow: node ids of the level's coroutines, in order
    task_pc,          \* node id -> where its _execute_single_node coroutine is
    task_inputs,      \* node id -> the inputs dict handed to its coroutine
    results,          \* node id -> what its coroutine returned
    seen_variables,   \* node id -> the variables its executor read (history)
    level_variables,  \* the variable store at the start of each level (history)
    level_status,     \* the status read from the row at the start of each level (history)
    invocations,      \* node id -> how often the node was resolved or run (history)
    completed,        \* node ids in the order in which their coroutines returned (history)
    cancel_pc,        \* where the web process's cancel request is
    cancel_exec,      \* the web process's in-memory FlowExecution
    cancel_todo,      \* cancel_execution: remaining_nodes still to mark, in iteration order
    cancels,          \* number of cancel requests accepted so far
    revoked,          \* whether AsyncResult.revoke(terminate=True) was sent
    cancelled_from    \* the status the row had when cancel_execution saved `cancelled` (history)

worker_vars ==
    <<pc, execution, result, execution_levels, level_idx, node_outputs,
      executed_nodes, skipped_nodes, flow_variables, tasks, task_pc, task_inputs,
      results, seen_variables, level_variables, level_status, invocations,
      completed>>

cancel_vars == <<cancel_pc, cancel_exec, cancel_todo, cancels, revoked, cancelled_from>>

vars == <<run, validation, flow_data, db, worker_vars, cancel_vars>>

nodes == run.flow.nodes

edges == run.flow.edges

\* `input: None` of a NodeResult
NoInput == <<[key |-> "<None>", value |-> None]>>

\* no result yet
NoResult == [none |-> TRUE]

\* save(update_fields=["execution_data"]) of the worker's object: the JSON
\* written holds, for every inputs["__variables__"], the content
\* flow_variables has at that moment
SaveExecutionData(row, exec, variables) ==
    [row EXCEPT !.execution_data = exec.execution_data, !.input_variables = variables]

\* save() / save(update_fields=["status", "execution_data"])
SaveAll(row, exec, variables) ==
    [row EXCEPT !.status = exec.status, !.execution_data = exec.execution_data,
                !.input_variables = variables]

\* FlowExecution.mark_running: the new state of the object, which is saved
\* with update_fields=["status"]
mark_running(exec) == [exec EXCEPT !.status = "running"]

\* FlowExecution.mark_completed: the new state of the object, which is saved
mark_completed(exec, execution_data) ==
    [exec EXCEPT !.status = "completed", !.execution_data = execution_data]

\* create_execution and execute_flow_task.delay: the row, the queued task and
\* the idle web process
CreatedAt(where) ==
    /\ db = [status |-> "pending",
             execution_data |-> [initialInput |-> run.initialInput,
                                 variables |-> run.variables,
                                 nodeResults |-> <<>>],
             input_variables |-> EmptyDict]
    /\ pc = where
    /\ execution = [status |-> "pending", execution_data |-> db.execution_data]
    /\ result = NoResult
    /\ execution_levels = <<>>
    /\ level_idx = 0
    /\ node_outputs = EmptyDict
    /\ executed_nodes = {}
    /\ skipped_nodes = {}
    /\ flow_variables = EmptyDict
    /\ tasks = <<>>
    /\ task_pc = EmptyDict
    /\ task_inputs = EmptyDict
    /\ results = EmptyDict
    /\ seen_variables = EmptyDict
    /\ level_variables = <<>>
    /\ level_status = <<>>
    /\ invocations = EmptyDict
    /\ completed = <<>>
    /\ cancel_pc = "idle"
    /\ cancel_exec = db
    /\ cancel_todo = <<>>
    /\ cancels = 0
    /\ revoked = FALSE
    /\ cancelled_from = "none"

\* the row and the task of an execution that was created and queued
Created == CreatedAt("queued")

\* the execute route: validate_flow, create_execution, execute_flow_task.delay
Init ==
    /\ run \in Runs
    /\ validation = validate_flow(nodes, edges)
    /\ flow_data = [nodes |-> CallerNodes(nodes), edges |-> edges]
    /\ Created

\* --------------------------------------------------------------- the worker

\* execute_flow_task: FlowExecution.objects.select_related(...).get(id=...)
TaskLoad ==
    /\ pc = "queued"
    /\ execution' = [status |-> db.status, execution_data |-> db.execution_data]
    /\ pc' = "loaded"
    /\ UNCHANGED <<run, validation, flow_data, invocations, completed, db, result, execution_levels, level_idx, node_outputs,
                   executed_nodes, skipped_nodes, flow_variables, tasks, task_pc,
                   task_inputs, results, seen_variables, level_variables,
                   level_status, cancel_vars>>

\* execute_flow_async: await sync_to_async(execution.mark_running)()
MarkRunning ==
    /\ pc = "loaded"
    /\ execution' = mark_running(execution)
    /\ db' = [db EXCEPT !.status = execution'.status]
    /\ pc' = "running"
    /\ UNCHANGED <<run, validation, flow_data, invocations, completed, result, execution_levels, level_idx, node_outputs,
                   executed_nodes, skipped_nodes, flow_variables, tasks, task_pc,
                   task_inputs, results, seen_variables, level_variables,
                   level_status, cancel_vars>>

\* one more resolution or run of the node (history)
Bump(counts, node_id) == Put(counts, node_id, Get(counts, node_id, 0) + 1)

\* a resolution that prefers the node's static value
InputNodeValue_StaticFirst(node, initial_input, variables) ==
    LET node_data == node.data
        variable_name == Get(node_data, "variableName", NoName)
    IN IF "value" \in DOMAIN node_data THEN node_data.value
       ELSE IF variable_name # NoName /\ variable_name \in DOMAIN initial_input
       THEN initial_input[variable_name]
       ELSE IF variable_name # NoName /\ variable_name \in DOMAIN variables
       THEN variables[variable_name]
       ELSE IF node.id \in DOMAIN initial_input THEN initial_input[node.id]
       ELSE EmptyStr

\* the value an input node resolves to
InputNodeValue(node, initial_input, variables) ==
    LET node_data == node.data
        variable_name == Get(node_data, "variableName", NoName)
    IN IF variable_name # NoName /\ variable_name \in DOMAIN initial_input
       THEN initial_input[variable_name]
       ELSE IF variable_name # NoName /\ variable_name \in DOMAIN variables
       THEN variables[variable_name]
       ELSE IF "value" \in DOMAIN node_data THEN node_data.value
       ELSE IF node.id \in DOMAIN initial_input THEN initial_input[node.id]
       ELSE EmptyStr

\* the loop over the input nodes: node_outputs, executed_nodes and nodeResults
RECURSIVE SeedInputs(_, _, _, _)
SeedInputs(ns, initial_input, variables, acc) ==
    IF ns = <<>> THEN acc
    ELSE LET node == Head(ns)
             value == InputNodeValue(node, initial_input, variables)
         IN IF node.type # "input"
            THEN SeedInputs(Tail(ns), initial_input, variables, acc)
            ELSE SeedInputs(Tail(ns), initial_input, variables,
                    [node_outputs |-> Put(acc.node_outputs, node.id, Plain(value)),
                     executed_nodes |-> acc.executed_nodes \cup {node.id},
                     invocations |-> Bump(acc.invocations, node.id),
                     nodeResults |-> Append(acc.nodeResults,
                         [nodeId |-> node.id, nodeType |-> "input", status |-> "success",
                          input |-> NoInput, output |-> value])])

\* execute_flow up to the level loop
StartFlow ==
    /\ pc = "running"
    /\ LET levels == _group_nodes_by_depth(nodes, edges)
           initial_input == Get(execution.execution_data, "initialInput", EmptyDict)
           variables == Get(execution.execution_data, "variables", EmptyDict)
           seeded == SeedInputs(nodes, initial_input, variables,
                        [node_outputs |-> EmptyDict, executed_nodes |-> {},
                         invocations |-> invocations,
                         nodeResults |-> execution.execution_data.nodeResults])
       IN IF levels.none \/ levels.levels = <<>>
          THEN /\ result' = [success |-> FALSE,
                             error |-> <<"Could not determine execution order (cycle detected?)">>]
               /\ pc' = "returned"
               /\ UNCHANGED <<db, execution, execution_levels, node_outputs,
                              executed_nodes, flow_variables, invocations>>
          ELSE /\ execution_levels' = levels.levels
               /\ flow_variables' = variables
               /\ node_outputs' = seeded.node_outputs
               /\ executed_nodes' = seeded.executed_nodes
               /\ invocations' = seeded.invocations
               /\ execution' = [execution EXCEPT !.execution_data.nodeResults = seeded.nodeResults]
               /\ db' = SaveExecutionData(db, execution', flow_variables')
               /\ pc' = "levels"
               /\ UNCHANGED result
    /\ UNCHANGED <<run, validation, flow_data, completed, level_idx, skipped_nodes, tasks, task_pc, task_inputs, results,
                   seen_variables, level_variables, level_status, cancel_vars>>

AllNodeIds == {nodes[i].id : i \in 1..Len(nodes)}

Reverse(s) == [i \in 1..Len(s) |-> s[Len(s) + 1 - i]]

\* `for node_id in <set of node ids>`: the iteration order of a Python set of
\* strings is not specified; the model draws it from the flow's node order
\* and the reverse of it
SetOrders(S) ==
    LET in_order == SelectSeq([i \in 1..Len(nodes) |-> nodes[i].id], LAMBDA id : id \in S)
    IN {in_order, Reverse(in_order)}

\* _mark_node_skipped without its save: the object after the append
_mark_node_skipped(exec, node, reason) ==
    [exec EXCEPT !.execution_data.nodeResults =
        Append(@, [nodeId |-> node.id, nodeType |-> node.type, status |-> "skipped",
                   skipReason |-> reason, input |-> NoInput, output |-> None])]

\* _mark_node_skipped for each node id of `order`, one after the other
RECURSIVE MarkSkippedAll(_, _, _)
MarkSkippedAll(exec, order, reason) ==
    IF order = <<>> THEN exec
    ELSE MarkSkippedAll(_mark_node_skipped(exec, nodes_dict(nodes)[Head(order)], reason),
                        Tail(order), reason)

\* inputs of a node of the level, with the reference to the variable store
LevelInputs(node_id) ==
    DictSet(_get_node_inputs(node_id, edges, node_outputs), "__variables__", VariablesRef)

\* `not inputs and node["type"] not in ["output", "image_output"]`, evaluated
\* after inputs["__variables__"] was set
ShouldSkip(node, inputs) ==
    inputs = <<>> /\ node.type \notin OutputTypes

\* a level loop that never sees a cancellation
CancelRequested_Never(exec) == FALSE

\* `if execution.status == "cancelled"` after refresh_from_db(fields=["status"])
CancelRequested(exec) == exec.status = "cancelled"

\* one pass of the level loop up to asyncio.gather: the cancellation check,
\* the inputs, the skips and the coroutines of the level
LevelStart ==
    /\ pc = "levels"
    /\ level_idx < Len(execution_levels)
    /\ level_status' = Append(level_status, db.status)
    /\ LET refreshed == [execution EXCEPT !.status = db.status]
           level_nodes == execution_levels[level_idx + 1]
           candidates == SelectSeq(level_nodes,
                            LAMBDA id : id \in DOMAIN nodes_dict(nodes)
                                        /\ nodes_dict(nodes)[id].type # "input")
           to_skip == SelectSeq(candidates,
                            LAMBDA id : ShouldSkip(nodes_dict(nodes)[id], LevelInputs(id)))
           to_run == SelectSeq(candidates,
                            LAMBDA id : ~ShouldSkip(nodes_dict(nodes)[id], LevelInputs(id)))
       IN IF CancelRequested(refreshed)
          THEN \E order \in SetOrders(AllNodeIds \ (executed_nodes \cup skipped_nodes)) :
                  /\ execution' = MarkSkippedAll(refreshed, order, <<"Execution cancelled">>)
                  /\ db' = IF order = <<>> THEN db
                           ELSE SaveExecutionData(db, execution', flow_variables)
                  /\ result' = [success |-> FALSE, error |-> <<"Execution cancelled by user">>,
                                cancelled |-> TRUE]
                  /\ pc' = "returned"
                  /\ UNCHANGED <<level_idx, skipped_nodes, tasks, task_pc, task_inputs,
                                 level_variables>>
          ELSE /\ execution' = MarkSkippedAll(refreshed, to_skip,
                                  <<"No input data - conditional branch not taken">>)
               /\ db' = IF to_skip = <<>> THEN db
                        ELSE SaveExecutionData(db, execution', flow_variables)
               /\ skipped_nodes' = skipped_nodes \cup Range(to_skip)
               /\ tasks' = to_run
               /\ task_pc' = [id \in (DOMAIN task_pc) \cup Range(to_run) |->
                                 IF id \in Range(to_run) THEN "created" ELSE task_pc[id]]
               /\ task_inputs' = [id \in (DOMAIN task_inputs) \cup Range(to_run) |->
                                 IF id \in Range(to_run) THEN LevelInputs(id)
                                 ELSE task_inputs[id]]
               /\ level_variables' = Append(level_variables, flow_variables)
               /\ IF to_run = <<>>
                  THEN pc' = "levels" /\ level_idx' = level_idx + 1
                  ELSE pc' = "gather" /\ UNCHANGED level_idx
               /\ UNCHANGED result
    /\ UNCHANGED <<run, validation, flow_data, invocations, completed, execution_levels, node_outputs, executed_nodes, flow_variables,
                   results, seen_variables, cancel_vars>>

\* the coroutines of asyncio.gather start in the order of `tasks`, and their
\* database calls are served in that order
MayBegin(node_id) ==
    /\ pc = "gather"
    /\ \E i \in 1..Len(tasks) :
          /\ tasks[i] = node_id
          /\ task_pc[node_id] = "created"
          /\ \A j \in 1..(i - 1) : task_pc[tasks[j]] # "created"

\* inputs.get("input", inputs)
InputOrAll(inputs) == Lookup(inputs, "input", DictValue(inputs))

\* _execute_single_node of an output / image_output node
OutputNodeRun(node_id) ==
    /\ MayBegin(node_id)
    /\ nodes_dict(nodes)[node_id].type \in OutputTypes
    /\ LET inputs == task_inputs[node_id]
       IN /\ execution' = [execution EXCEPT !.execution_data.nodeResults =
                 Append(@, [nodeId |-> node_id, nodeType |-> nodes_dict(nodes)[node_id].type,
                            status |-> "success", input |-> inputs,
                            output |-> InputOrAll(inputs)])]
          /\ results' = Put(results, node_id, [success |-> TRUE, output |-> InputOrAll(inputs)])
    /\ db' = SaveExecutionData(db, execution', flow_variables)
    /\ task_pc' = [task_pc EXCEPT ![node_id] = "returned"]
    /\ invocations' = Bump(invocations, node_id)
    /\ completed' = Append(completed, node_id)
    /\ UNCHANGED <<run, validation, flow_data, pc, result, execution_levels, level_idx, node_outputs,
                   executed_nodes, skipped_nodes, flow_variables, tasks, task_inputs,
                   seen_variables, level_variables, level_status, cancel_vars>>

\* _execute_single_node of any other node, up to the call of execute_node:
\* the `running` record
NodeBegin(node_id) ==
    /\ MayBegin(node_id)
    /\ nodes_dict(nodes)[node_id].type \notin OutputTypes
    /\ execution' = [execution EXCEPT !.execution_data.nodeResults =
          Append(@, [nodeId |-> node_id, nodeType |-> nodes_dict(nodes)[node_id].type,
                     status |-> "running", input |-> task_inputs[node_id],
                     output |-> None])]
    /\ db' = SaveExecutionData(db, execution', flow_variables)
    /\ task_pc' = [task_pc EXCEPT ![node_id] = "running"]
    /\ UNCHANGED <<run, validation, flow_data, invocations, completed, pc, result, execution_levels, level_idx, node_outputs,
                   executed_nodes, skipped_nodes, flow_variables, tasks, task_inputs,
                   results, seen_variables, level_variables, level_status, cancel_vars>>

\* a NodeResult that takes the status of the NodeExecutionLog
FinalNodeResult_LogStatus(node, inputs, r) ==
    [nodeId |-> node.id, nodeType |-> node.type,
     status |-> IF r.success THEN "completed" ELSE "failed",
     input |-> inputs, output |-> Get(r, "output", None)]

\* the NodeResult written when execute_node has returned `r`
FinalNodeResult(node, inputs, r) ==
    LET base == [nodeId |-> node.id, nodeType |-> node.type,
                 status |-> IF r.success THEN "success" ELSE "error",
                 input |-> inputs, output |-> Get(r, "output", None)]
        cond == IF node.type = "conditional"
                THEN Put(Put(base, "matchedCondition", Get(r, "matchedCondition", NoName)),
                         "outputHandle", Get(r, "outputHandle", NoName))
                ELSE base
    IN IF r.success THEN cond
       ELSE Put(cond, "error", [message |-> Get(r, "error", NoName)])

\* a replacement that keeps only the new record
ReplaceNodeResult_Truncating(node_results, node_id, node_result) == <<node_result>>

\* replace the first record of the node in nodeResults
ReplaceNodeResult(node_results, node_id, node_result) ==
    IF \E i \in 1..Len(node_results) : node_results[i].nodeId = node_id
    THEN LET first == CHOOSE i \in 1..Len(node_results) :
                         /\ node_results[i].nodeId = node_id
                         /\ \A j \in 1..(i - 1) : node_results[j].nodeId # node_id
         IN [node_results EXCEPT ![first] = node_result]
    ELSE node_results

\* _execute_single_node from the return of execute_node to its own return
NodeComplete(node_id) ==
    /\ pc = "gather"
    /\ node_id \in Range(tasks)
    /\ task_pc[node_id] = "running"
    /\ LET node == nodes_dict(nodes)[node_id]
           inputs == task_inputs[node_id]
       IN \E ai \in IF node.type = "llm" THEN AIBehaviours
                    ELSE {[valid |-> TRUE, raises |-> FALSE, response |-> EmptyStr]} :
             LET r == execute_node(node.type, Get(node, "data", EmptyDict), inputs,
                                   flow_variables, ai)
             IN /\ execution' = [execution EXCEPT !.execution_data.nodeResults =
                       ReplaceNodeResult(@, node_id, FinalNodeResult(node, inputs, r))]
                /\ results' = Put(results, node_id, r)
    /\ db' = SaveExecutionData(db, execution', flow_variables)
    /\ seen_variables' = Put(seen_variables, node_id, flow_variables)
    /\ task_pc' = [task_pc EXCEPT ![node_id] = "returned"]
    /\ invocations' = Bump(invocations, node_id)
    /\ completed' = Append(completed, node_id)
    /\ UNCHANGED <<run, validation, flow_data, pc, result, execution_levels, level_idx, node_outputs,
                   executed_nodes, skipped_nodes, flow_variables, tasks, task_inputs,
                   level_variables, level_status, cancel_vars>>

\* asyncio.gather(..., return_exceptions=True) has returned: every coroutine
\* of the level has
AllReturned == \A i \in 1..Len(tasks) : task_pc[tasks[i]] = "returned"

\* a results loop that treats every result as a success
ResultFailed_Never(r) == FALSE

\* a results loop that drops the setVariable instruction
ApplySetVariable_Dropped(r, variables) == variables

\* a results loop in which the first write of a variable stays
ApplySetVariable_IfAbsent(r, variables) ==
    IF "setVariable" \in DOMAIN r /\ r.setVariable.name \notin DOMAIN variables
    THEN Put(variables, r.setVariable.name, r.setVariable.value)
    ELSE variables

\* `if not result.get("success")`
ResultFailed(r) == ~r.success

\* `if "setVariable" in result: flow_variables[name] = value`
ApplySetVariable(r, variables) ==
    IF "setVariable" \in DOMAIN r
    THEN Put(variables, r.setVariable.name, r.setVariable.value)
    ELSE variables

\* the loop over zip(tasks, results) up to the first failed node (`failed`)
\* or to its end (failed = NoName)
RECURSIVE ApplyResults(_, _)
ApplyResults(ts, acc) ==
    IF ts = <<>> THEN acc
    ELSE LET node_id == Head(ts)
             r == results[node_id]
             node == nodes_dict(nodes)[node_id]
         IN IF ResultFailed(r) THEN [acc EXCEPT !.failed = node_id]
            ELSE ApplyResults(Tail(ts),
                    [failed |-> NoName,
                     executed_nodes |-> acc.executed_nodes \cup {node_id},
                     flow_variables |-> ApplySetVariable(r, acc.flow_variables),
                     node_outputs |->
                         Put(acc.node_outputs, node_id,
                             IF node.type = "conditional" THEN r
                             ELSE Plain(Get(r, "output", None)))])

\* the rest of the level loop's pass, after asyncio.gather
ProcessResults ==
    /\ pc = "gather"
    /\ AllReturned
    /\ LET acc == ApplyResults(tasks, [failed |-> NoName, executed_nodes |-> executed_nodes,
                                       flow_variables |-> flow_variables,
                                       node_outputs |-> node_outputs])
       IN /\ executed_nodes' = acc.executed_nodes
          /\ flow_variables' = acc.flow_variables
          /\ node_outputs' = acc.node_outputs
          /\ IF acc.failed # NoName
             THEN LET downstream == _get_downstream_nodes(acc.failed, edges,
                                        acc.executed_nodes \cup skipped_nodes)
                  IN \E order \in SetOrders(downstream) :
                        /\ execution' = MarkSkippedAll(execution, order,
                                            <<"Upstream node ", acc.failed, " failed">>)
                        /\ db' = IF order = <<>> THEN db
                                 ELSE SaveExecutionData(db, execution', flow_variables')
                        /\ skipped_nodes' = skipped_nodes \cup downstream
                        /\ result' = [success |-> FALSE,
                                      error |-> <<"Node ", acc.failed, " failed: ",
                                                  Get(results[acc.failed], "error", NoName)>>,
                                      failedNodeId |-> acc.failed]
                        /\ pc' = "returned"
                        /\ UNCHANGED level_idx
             ELSE /\ pc' = "levels"
                  /\ level_idx' = level_idx + 1
                  /\ UNCHANGED <<db, execution, skipped_nodes, result>>
    /\ UNCHANGED <<run, validation, flow_data, invocations, completed, execution_levels, tasks, task_pc, task_inputs, results,
                   seen_variables, level_variables, level_status, cancel_vars>>

\* final_output as the loop over output_nodes leaves it
RECURSIVE CollectFinal(_, _)
CollectFinal(ns, final_output) ==
    IF ns = <<>> THEN final_output
    ELSE LET node == Head(ns)
             inputs == _get_node_inputs(node.id, edges, node_outputs)
         IN IF node.type \notin OutputTypes \/ node.id \in skipped_nodes \/ inputs = <<>>
            THEN CollectFinal(Tail(ns), final_output)
            ELSE CollectFinal(Tail(ns), DictSet(final_output, node.id, InputOrAll(inputs)))

\* the `output` of execute_flow's result: the single value, or the mapping
FinalOutput ==
    LET final_output == CollectFinal(nodes, <<>>)
    IN IF Len(final_output) = 1
       THEN [single |-> TRUE, value |-> final_output[1].value]
       ELSE [single |-> FALSE, outputs |-> final_output]

\* result.get("output") when the result has none
NoOutput == [single |-> TRUE, value |-> None]

\* execute_flow after the level loop
AllLevelsDone ==
    /\ pc = "levels"
    /\ level_idx >= Len(execution_levels)
    /\ execution' = [execution EXCEPT !.execution_data.variables = flow_variables]
    /\ db' = SaveExecutionData(db, execution', flow_variables)
    /\ result' = [success |-> TRUE, output |-> FinalOutput]
    /\ pc' = "returned"
    /\ UNCHANGED <<run, validation, flow_data, invocations, completed, execution_levels, level_idx, node_outputs, executed_nodes,
                   skipped_nodes, flow_variables, tasks, task_pc, task_inputs, results,
                   seen_variables, level_variables, level_status, cancel_vars>>

\* execute_flow_async after execute_flow has returned: the object it saves
FinishedExecution(exec, res) ==
    IF Get(res, "cancelled", FALSE)
    THEN [exec EXCEPT !.status = "cancelled",
                      !.execution_data = Put(@, "error",
                           [message |-> <<"Execution cancelled by user">>, cancelledAt |-> "now"])]
    ELSE LET with_output == Put(exec.execution_data, "finalOutput", Get(res, "output", NoOutput))
             decided ==
                 IF res.success
                 THEN [exec EXCEPT !.status = "completed", !.execution_data = with_output]
                 ELSE [exec EXCEPT !.status = "failed",
                                   !.execution_data = Put(with_output, "error",
                                       [message |-> Get(res, "error", <<"Unknown error">>),
                                        failedNodeId |-> Get(res, "failedNodeId", NoName)])]
         IN mark_completed(decided, decided.execution_data)

Finish ==
    /\ pc = "returned"
    /\ execution' = FinishedExecution(execution, result)
    /\ db' = SaveAll(db, execution', flow_variables)
    /\ pc' = "done"
    /\ UNCHANGED <<run, validation, flow_data, invocations, completed, result, execution_levels, level_idx, node_outputs, executed_nodes,
                   skipped_nodes, flow_variables, tasks, task_pc, task_inputs, results,
                   seen_variables, level_variables, level_status, cancel_vars>>

\* the worker process is terminated by the revoke of its task; what it held
\* in memory is gone
Terminate ==
    /\ revoked
    /\ pc \notin {"done", "terminated"}
    /\ pc' = "terminated"
    /\ execution' = [status |-> "pending", execution_data |-> db.execution_data]
    /\ result' = NoResult
    /\ execution_levels' = <<>>
    /\ level_idx' = 0
    /\ node_outputs' = EmptyDict
    /\ executed_nodes' = {}
    /\ skipped_nodes' = {}
    /\ flow_variables' = EmptyDict
    /\ tasks' = <<>>
    /\ task_pc' = EmptyDict
    /\ task_inputs' = EmptyDict
    /\ results' = EmptyDict
    /\ seen_variables' = EmptyDict
    /\ level_variables' = <<>>
    /\ level_status' = <<>>
    /\ invocations' = EmptyDict
    /\ completed' = <<>>
    /\ UNCHANGED <<run, validation, flow_data, db, cancel_vars>>

\* ------------------------------------------------------- the cancel request

\* FlowExecutionController.cancel_execution: load the row, refuse unless the
\* status is pending or running
CancelRequest ==
    /\ cancel_pc = "idle"
    /\ cancels < MaxCancels
    /\ db.status \in {"pending", "running"}
    /\ cancel_exec' = db
    /\ cancels' = cancels + 1
    /\ cancel_pc' = "accepted"
    /\ UNCHANGED <<run, validation, flow_data, db, worker_vars, cancel_todo, revoked, cancelled_from>>

\* cancel_execution: refresh_from_db and remaining_nodes
CancelRefresh ==
    /\ cancel_pc = "accepted"
    /\ cancel_exec' = db
    /\ LET node_results == db.execution_data.nodeResults
           executed_node_ids == {node_results[i].nodeId : i \in 1..Len(node_results)}
       IN \E order \in SetOrders(AllNodeIds \ executed_node_ids) : cancel_todo' = order
    /\ cancel_pc' = "marking"
    /\ UNCHANGED <<run, validation, flow_data, db, worker_vars, cancels, revoked, cancelled_from>>

\* cancel_execution: one _mark_node_skipped of the loop over remaining_nodes
CancelMarkSkipped ==
    /\ cancel_pc = "marking"
    /\ cancel_todo # <<>>
    /\ cancel_exec' = _mark_node_skipped(cancel_exec, nodes_dict(nodes)[Head(cancel_todo)],
                                         <<"Execution cancelled by user">>)
    /\ db' = [db EXCEPT !.execution_data = cancel_exec'.execution_data,
                        !.input_variables = cancel_exec'.input_variables]
    /\ cancel_todo' = Tail(cancel_todo)
    /\ UNCHANGED <<run, validation, flow_data, worker_vars, cancel_pc, cancels, revoked, cancelled_from>>

\* cancel_execution: the loop that turns `running` records into `cancelled`
CancelRunning(node_results) ==
    [i \in 1..Len(node_results) |->
        IF node_results[i].status = "running"
        THEN Put([node_results[i] EXCEPT !.status = "cancelled"], "error",
                 [message |-> "Execution cancelled by user"])
        ELSE node_results[i]]

\* cancel_execution from that loop on: the save of status and execution_data,
\* and the revoke
CancelSave ==
    /\ cancel_pc = "marking"
    /\ cancel_todo = <<>>
    /\ cancel_exec' = [cancel_exec EXCEPT
          !.status = "cancelled",
          !.execution_data = Put([@ EXCEPT !.nodeResults = CancelRunning(@)], "error",
                                 [message |-> <<"Execution cancelled by user">>,
                                  cancelledAt |-> "now"])]
    /\ db' = cancel_exec'
    /\ revoked' = TRUE
    /\ cancelled_from' = db.status
    /\ cancel_pc' = "idle"
    /\ UNCHANGED <<run, validation, flow_data, worker_vars, cancel_todo, cancels>>

\* ------------------------------------------------------------ specification

Next ==
    \/ TaskLoad
    \/ MarkRunning
    \/ StartFlow
    \/ LevelStart
    \/ \E node_id \in AllNodeIds : OutputNodeRun(node_id)
    \/ \E node_id \in AllNodeIds : NodeBegin(node_id)
    \/ \E node_id \in AllNodeIds : NodeComplete(node_id)
    \/ ProcessResults
    \/ AllLevelsDone
    \/ Finish
    \/ Terminate
    \/ CancelRequest
    \/ CancelRefresh
    \/ CancelMarkSkipped
    \/ CancelSave

Spec == Init /\ [][Next]_vars

\* ------------------------------------------------------- graphs and seeding

\* bound: the number of nodes of the graphs explored
MaxGraphNodes == 3

\* bound: the number of edges of the graphs explored
MaxGraphEdges == 3

\* node i of a graph of n nodes: the first is an input node, the last an
\* output node, the others llm nodes; all pass _validate_node
GraphNode(i, n) ==
    [id |-> ToString(i),
     type |-> IF i = 1 THEN "input" ELSE IF i = n THEN "output" ELSE "llm",
     data |-> IF i = 1 THEN [value |-> <<"d">>]
              ELSE IF i = n THEN [format |-> "text"]
              ELSE LlmData(PromptOfInput)]

\* every list of at most MaxGraphEdges edges between n nodes: self-loops and
\* repeated edges included
GraphEdges(n) ==
    UNION {{[i \in 1..k |-> [source |-> ToString(p[i][1]), target |-> ToString(p[i][2])]] :
               p \in [1..k -> (1..n) \X (1..n)]} : k \in 0..MaxGraphEdges}

\* the runs of the graphs of at most max_nodes nodes
GraphRuns(max_nodes) ==
    UNION {{[flow |-> [nodes |-> [i \in 1..n |-> GraphNode(i, n)], edges |-> es],
             initialInput |-> EmptyDict, variables |-> EmptyDict] :
               es \in IF n = 0 THEN {<<>>} ELSE GraphEdges(n)} : n \in 0..max_nodes}

\* in -> out with every choice of the input node's variableName and value,
\* of the initialInput entries for the variable name and for the node id, and
\* of the flow variable of that name
SeedRuns ==
    {[flow |-> [nodes |-> <<[id |-> "in", type |-> "input",
                             data |-> [k \in d |-> IF k = "variableName" THEN "q"
                                                   ELSE <<"s">>]],
                            [id |-> "out", type |-> "output", data |-> [format |-> "text"]]>>,
                edges |-> <<[source |-> "in", target |-> "out"]>>],
      initialInput |-> [k \in i |-> IF k = "q" THEN <<"1">> ELSE <<"2">>],
      variables |-> [k \in v |-> <<"3">>]] :
        d \in SUBSET {"variableName", "value"}, i \in SUBSET {"q", "in"}, v \in SUBSET {"q"}}

\* a request to run a flow that has not been validated yet
GraphInit ==
    /\ run \in GraphRuns(MaxGraphNodes) \cup SeedRuns
    /\ validation = NoResult
    /\ flow_data = run.flow
    /\ Created

\* the execute route: validation = await validate_flow(nodes, edges)
ValidateFlow ==
    /\ validation = NoResult
    /\ validation' = validate_flow(nodes, edges)
    /\ flow_data' = [nodes |-> CallerNodes(nodes), edges |-> edges]
    /\ UNCHANGED <<run, db, worker_vars, cancel_vars>>

\* validate_flow, and the worker up to the level loop; the worker reads
\* flow_data itself and does not consult the validator
GraphNext ==
    \/ ValidateFlow
    \/ TaskLoad
    \/ MarkRunning
    \/ StartFlow

GraphSpec == GraphInit /\ [][GraphNext]_vars

\* bound: the number of nodes of the graphs handed to the validate route
MaxCheckedNodes == 3

\* bound: the number of edges of the graphs handed to the validate route
MaxCheckedEdges == 2

\* the id used by edges that reference a node the flow does not have
GhostId == "ghost"

\* the nodes a stored flow can hold at position i of n: nodes that pass
\* _validate_node and nodes that do not
CheckedNodes(i, n) ==
    LET id == ToString(i)
        first == {[id |-> id, type |-> "input", data |-> [value |-> <<"d">>]],
                  [id |-> id, type |-> "input", data |-> [value |-> EmptyStr]],
                  [id |-> id, type |-> "llm", data |-> LlmData(PromptOfInput)]}
        last == {[id |-> id, type |-> "output", data |-> [format |-> "text"]],
                 [id |-> id, type |-> "llm",
                  data |-> [provider |-> "openrouter", userPromptTemplate |-> PromptOfInput]]}
        middle == {[id |-> id, type |-> "llm", data |-> LlmData(PromptOfInput)],
                   [id |-> id, type |-> "conditional", data |-> [conditions |-> <<>>]]}
    IN IF i = 1 THEN (IF n = 1 THEN first \cup last ELSE first)
       ELSE IF i = n THEN last ELSE middle

\* the lists of nodes of a stored flow
CheckedNodeLists(n) ==
    {ns \in [1..n -> UNION {CheckedNodes(i, n) : i \in 1..n}] :
        \A i \in 1..n : ns[i] \in CheckedNodes(i, n)}

\* the elements of a set as a list, in one fixed order
RECURSIVE ListOf(_)
ListOf(S) ==
    IF S = {} THEN <<>>
    ELSE LET x == CHOOSE y \in S : TRUE IN <<x>> \o ListOf(S \ {x})

\* the subsets of S of at most k elements
RECURSIVE SubsetsUpTo(_, _)
SubsetsUpTo(S, k) ==
    IF k = 0 THEN {{}}
    ELSE LET smaller == SubsetsUpTo(S, k - 1)
         IN smaller \cup {T \cup {x} : T \in smaller, x \in S}

\* the lists of at most MaxCheckedEdges distinct edges between the n nodes
\* and the ghost id, each list in one fixed order
CheckedEdgeLists(n) ==
    LET ends == {ToString(i) : i \in 1..n} \cup {GhostId}
        all == {[source |-> a, target |-> b] : a \in ends, b \in ends}
    IN {ListOf(S) : S \in SubsetsUpTo(all, MaxCheckedEdges)}

\* the node as it is stored when its data carry nodeType
WithNodeType(node) == [node EXCEPT !.data = Put(@, "nodeType", node.type)]

\* a flow handed to the validate route: the data of its nodes carry nodeType,
\* or none does
CheckedRun(ns, es, typed) ==
    [flow |-> [nodes |-> IF typed THEN [i \in 1..Len(ns) |-> WithNodeType(ns[i])] ELSE ns,
               edges |-> es],
     initialInput |-> EmptyDict, variables |-> EmptyDict]

\* a request to validate a stored flow; no execution is queued
ValidateInit ==
    /\ \E n \in 0..MaxCheckedNodes :
          \E ns \in CheckedNodeLists(n), typed \in BOOLEAN :
             \E es \in IF n = 0 THEN {<<>>} ELSE CheckedEdgeLists(n) :
                run = CheckedRun(ns, es, typed)
    /\ validation = NoResult
    /\ flow_data = run.flow
    /\ CreatedAt("request")

\* the validate route
ValidateNext == ValidateFlow

ValidateSpec == ValidateInit /\ [][ValidateNext]_vars

\* ------------------------------------------------- the executors, one by one

\* in -> x -> out, where `in` is an input node with a static value and x is
\* the node whose executor is looked at
ProbeFlow(value, node_type, node_data) ==
    [nodes |-> <<
        [id |-> "in", type |-> "input", data |-> [value |-> value]],
        [id |-> "x", type |-> node_type, data |-> node_data],
        [id |-> "out", type |-> "output", data |-> [format |-> "text"]] >>,
     edges |-> << [source |-> "in", target |-> "x"], [source |-> "x", target |-> "out"] >>]

\* the worker alone: no cancel request is made
WorkerNext ==
    \/ TaskLoad
    \/ MarkRunning
    \/ StartFlow
    \/ LevelStart
    \/ \E node_id \in AllNodeIds : OutputNodeRun(node_id)
    \/ \E node_id \in AllNodeIds : NodeBegin(node_id)
    \/ \E node_id \in AllNodeIds : NodeComplete(node_id)
    \/ ProcessResults
    \/ AllLevelsDone
    \/ Finish

\* bound: how many conditions a conditional node has
MaxConditions == 2

\* the values handed to the conditional node
ConditionInputs ==
    {<<>>, <<" ">>, <<"X", "y">>, <<"y">>, <<"2">>, <<"1", ".", "5">>}

\* operator and value of a condition
ConditionChoices ==
    {[operator |-> "contains", value |-> <<"x">>],
     [operator |-> "equals", value |-> <<"Y">>],
     [operator |-> "ends_with", value |-> <<"y">>],
     [operator |-> "regex", value |-> <<".">>],
     [operator |-> "regex", value |-> <<"(">>],
     [operator |-> "greater_than", value |-> <<"1">>],
     [operator |-> "less_than", value |-> <<"2">>],
     [operator |-> "equals_number", value |-> <<"2", ".", "0">>],
     [operator |-> "less_than", value |-> <<"x">>],
     [operator |-> "is_empty", value |-> <<>>],
     [operator |-> "is_not_empty", value |-> <<>>],
     [operator |-> "length_greater_than", value |-> <<"1">>],
     [operator |-> "length_less_than", value |-> <<"x">>],
     [operator |-> "between", value |-> <<"x">>]}

\* the output handles of a node's conditions, which are distinct
HandleAt(i) == <<"h1", "h2", "h3">>[i]

\* a conditional node's data
ConditionalData(choices, case_sensitive) ==
    [conditions |-> [i \in 1..Len(choices) |->
                        [operator |-> choices[i].operator, value |-> choices[i].value,
                         outputHandle |-> HandleAt(i)]],
     defaultOutputHandle |-> "default",
     caseSensitive |-> case_sensitive]

\* a run of a flow whose middle node is a conditional node
ConditionalInit ==
    /\ \E n \in 1..MaxConditions :
          \E choices \in [1..n -> ConditionChoices], case_sensitive \in BOOLEAN :
             \E value \in ConditionInputs :
                run = [flow |-> ProbeFlow(value, "conditional",
                                          ConditionalData(choices, case_sensitive)),
                       initialInput |-> EmptyDict, variables |-> EmptyDict]
    /\ validation = NoResult
    /\ flow_data = run.flow
    /\ Created

ConditionalSpec == ConditionalInit /\ [][WorkerNext]_vars

\* bound: how many extractions a json_extractor node has
MaxExtractions == 2

\* the texts handed to the json_extractor node: {"a":1}, {"a":1,"b":"s"}, {},
\* 7, x and the empty text
JsonTexts ==
    {<<"{", Quote, "a", Quote, ":", "1", "}">>,
     <<"{", Quote, "a", Quote, ":", "1", ",", Quote, "b", Quote, ":", Quote, "s", Quote, "}">>,
     <<"{", "}">>,
     <<"7">>,
     <<"x">>,
     <<>>}

\* path and fallback of an extraction: $, $.a, $.c, $.* and $[
ExtractionChoices ==
    {[path |-> p] : p \in {<<"$">>, <<"$", ".", "a">>, <<"$", ".", "c">>,
                           <<"$", ".", "*">>, <<"$", "[">>}}
    \cup {[path |-> <<"$", ".", "a">>, fallback |-> <<"f">>],
          [path |-> <<"$", ".", "c">>, fallback |-> <<"f">>],
          [path |-> <<"$", "[">>, fallback |-> <<"f">>]}

\* the keys of a node's extractions
ExtractionKeyAt(i) == <<"k1", "k2", "k3">>[i]

\* a json_extractor node's data
JsonExtractorData(choices, strict_mode, output_format) ==
    [extractions |-> [i \in 1..Len(choices) |-> Put(choices[i], "key", ExtractionKeyAt(i))],
     strictMode |-> strict_mode,
     outputFormat |-> output_format]

\* a run of a flow whose middle node is a json_extractor node
ExtractorInit ==
    /\ \E n \in 0..MaxExtractions :
          \E choices \in [1..n -> ExtractionChoices], strict_mode \in BOOLEAN :
             \E output_format \in {"object", "array", "flat", "singleValue"} :
                \E text \in JsonTexts :
                   run = [flow |-> ProbeFlow(text, "json_extractor",
                                     JsonExtractorData(choices, strict_mode, output_format)),
                          initialInput |-> EmptyDict, variables |-> EmptyDict]
    /\ validation = NoResult
    /\ flow_data = run.flow
    /\ Created

ExtractorSpec == ExtractorInit /\ [][WorkerNext]_vars

\* bound: how many edges lead into the merge node
MaxMergeInputs == 2

\* the values of the input nodes: "foo", "bar" and a dict
MergeValues ==
    {<<"f", "o", "o">>, <<"b", "a", "r">>, DictValue(<<[key |-> "k", value |-> <<"v">>]>>)}

\* the target handles of the edges into the merge node
MergeHandles == {"a", "b", "input", "__ctx"}

MergeStrategies == {"object", "flatten", "array", "concat", "first", "last", "zip"}

\* input nodes i1..in, each with an edge to the merge node x, and x -> out
MergeFlow(values, handles, merge_strategy) ==
    [nodes |->
        [i \in 1..Len(values) |->
            [id |-> <<"i1", "i2", "i3">>[i], type |-> "input", data |-> [value |-> values[i]]]]
        \o << [id |-> "x", type |-> "merge", data |-> [mergeStrategy |-> merge_strategy]],
              [id |-> "out", type |-> "output", data |-> [format |-> "text"]] >>,
     edges |->
        [i \in 1..Len(values) |->
            [source |-> <<"i1", "i2", "i3">>[i], target |-> "x", targetHandle |-> handles[i]]]
        \o << [source |-> "x", target |-> "out"] >>]

\* a run of a flow whose merge node has up to MaxMergeInputs incoming edges
MergeInit ==
    /\ \E n \in 0..MaxMergeInputs :
          \E values \in [1..n -> MergeValues], handles \in [1..n -> MergeHandles] :
             \E merge_strategy \in MergeStrategies :
                run = [flow |-> MergeFlow(values, handles, merge_strategy),
                       initialInput |-> EmptyDict, variables |-> EmptyDict]
    /\ validation = NoResult
    /\ flow_data = run.flow
    /\ Created

MergeSpec == MergeInit /\ [][WorkerNext]_vars

\* the fields a variable_get or variable_set node can carry
VariableFields ==
    [variableName : {"", "v", "w"},
     fallbackValue : {<<"f">>},
     valueSource : {"input", "static", "none"},
     staticValue : {<<"s">>}]

\* the variables the execution starts with
StoredVariables ==
    {EmptyDict, [n \in {"v"} |-> <<"o">>], [n \in {"v"} |-> None],
     [n \in {"v", "w"} |-> <<"o">>]}

\* node data with the fields `present` only
VariableData(fields, present) == [k \in present |-> fields[k]]

\* a run of a flow whose middle node is a variable_get or a variable_set node
VariableInit ==
    /\ \E node_type \in {"variable_get", "variable_set"}, fields \in VariableFields :
          \E present \in SUBSET DOMAIN fields, variables \in StoredVariables :
             \E value \in {EmptyStr, <<"i">>} :
                run = [flow |-> ProbeFlow(value, node_type, VariableData(fields, present)),
                       initialInput |-> EmptyDict, variables |-> variables]
    /\ validation = NoResult
    /\ flow_data = run.flow
    /\ Created

VariableSpec == VariableInit /\ [][WorkerNext]_vars

\* bound: how many operations a text_transformer node has
MaxOperations == 2

\* the texts a text_transformer node is probed with
TransformInputs == {<<" ", " ", "h", "i", " ", " ">>, <<"a", ",", "I", "\n", "b", " ">>}

\* the operations a text_transformer node is probed with
OperationChoices ==
    {[type |-> "trim"],
     [type |-> "uppercase"],
     [type |-> "capitalize"],
     [type |-> "replace", config |-> [find |-> <<"h">>, replace |-> <<" ">>]],
     [type |-> "replace", config |-> [replace |-> <<"x">>]],
     [type |-> "regex_replace",
      config |-> [pattern |-> <<".", "i">>, replace |-> <<"Y">>, flags |-> <<"i">>]],
     [type |-> "split"],
     [type |-> "join", config |-> [delimiter |-> <<" ">>]],
     [type |-> "substring", config |-> [start |-> 1, end |-> -1]],
     [type |-> "prefix", config |-> [value |-> <<" ">>]],
     [type |-> "remove_whitespace"],
     [type |-> "reverse"]}

\* a run of a flow whose middle node is a text_transformer node
TransformInit ==
    /\ \E n \in 0..MaxOperations :
          \E choices \in [1..n -> OperationChoices], enabled \in [1..n -> BOOLEAN] :
             \E text \in TransformInputs :
                run = [flow |-> ProbeFlow(text, "text_transformer",
                                   [operations |->
                                       [i \in 1..n |-> Put(choices[i], "enabled", enabled[i])]]),
                       initialInput |-> EmptyDict, variables |-> EmptyDict]
    /\ validation = NoResult
    /\ flow_data = run.flow
    /\ Created

TransformSpec == TransformInit /\ [][WorkerNext]_vars

\* ------------------------------------------------------------- properties

MemResults == execution.execution_data.nodeResults

DbResults == db.execution_data.nodeResults

RecordsOf(node_results, node_id) ==
    {node_results[i] : i \in {j \in 1..Len(node_results) : node_results[j].nodeId = node_id}}

FailedNodes == {n \in DOMAIN results : ~results[n].success}

\* the node's coroutine has returned, or the node never gets one
NodeFinished(m) ==
    \/ nodes_dict(nodes)[m].type = "input"
    \/ m \in skipped_nodes
    \/ m \in DOMAIN task_pc /\ task_pc[m] = "returned"

\* C1: when execute_flow_async finishes a run in which a dispatched node's
\* executor returned success:false (no cancel request being involved), the
\* persisted status is `failed` and execution_data.error.failedNodeId is the
\* id of a failing node.
C1_FailedRunIsPersistedFailed ==
    (pc = "done" /\ cancels = 0 /\ FailedNodes # {})
    => /\ db.status = "failed"
       /\ "error" \in DOMAIN db.execution_data
       /\ "failedNodeId" \in DOMAIN db.execution_data.error
       /\ db.execution_data.error.failedNodeId \in FailedNodes

\* C2: once the level of the target of an edge that leaves an executed
\* conditional on a handle other than the selected one has been started, and
\* the target receives no input from any incoming edge, the target has no
\* coroutine and has a `skipped` record with the reason "No input data -
\* conditional branch not taken".
C2_UntakenBranchTargetSkipped ==
    \A i \in 1..Len(edges) :
        LET c == edges[i].source
            t == edges[i].target
        IN (/\ c \in DOMAIN node_outputs
            /\ nodes_dict(nodes)[c].type = "conditional"
            /\ "outputHandle" \in DOMAIN node_outputs[c]
            /\ Get(edges[i], "sourceHandle", "output") # node_outputs[c].outputHandle
            /\ _get_node_inputs(t, edges, node_outputs) = <<>>
            /\ execution_levels # <<>>
            /\ LevelOf(execution_levels, t) < Len(level_variables))
           => /\ t \notin DOMAIN task_pc
              /\ \E r \in RecordsOf(MemResults, t) :
                    /\ r.status = "skipped"
                    /\ r.skipReason = <<"No input data - conditional branch not taken">>

AllowedMoves ==
    {<<"pending", "running">>, <<"pending", "cancelled">>, <<"running", "completed">>,
     <<"running", "failed">>, <<"running", "cancelled">>}

\* C3: every change of the persisted status is one of pending -> running,
\* running -> completed | failed | cancelled (or pending -> cancelled): no
\* status is entered again and a terminal status is never left.
C3_StatusOnlyMovesForward ==
    [][db.status' = db.status \/ <<db.status, db.status'>> \in AllowedMoves]_vars

\* C4: if the status read at the start of level k is `cancelled`, no later
\* level is started, no node of level k or later has a coroutine, every node
\* not executed or skipped has a `skipped` record with reason "Execution
\* cancelled", every node of an earlier level has its `success` record, and
\* the run finishes with the persisted status `cancelled` and that trace.
C4_CancelledAtLevelBoundary ==
    \A k \in 1..Len(level_status) :
        level_status[k] = "cancelled"
        => /\ k = Len(level_status)
           /\ pc \in {"returned", "done"}
           /\ \A n \in DOMAIN task_pc : LevelOf(execution_levels, n) < k - 1
           /\ \A n \in AllNodeIds \ (executed_nodes \cup skipped_nodes) :
                 \E r \in RecordsOf(MemResults, n) :
                    r.status = "skipped" /\ r.skipReason = <<"Execution cancelled">>
           /\ \A n \in AllNodeIds :
                 LevelOf(execution_levels, n) < k - 1
                 => \E r \in RecordsOf(MemResults, n) : r.status = "success"
           /\ pc = "done" => /\ db.status = "cancelled"
                             /\ db.execution_data = execution.execution_data

\* C4 witness: a run cancelled at the start of its third level has finished:
\* a node of the second level holds `success`, a later node `skipped`
C4_Witness ==
    /\ pc = "done"
    /\ Len(level_status) = 3
    /\ level_status[3] = "cancelled"
    /\ \E n \in DOMAIN results : \E r \in RecordsOf(DbResults, n) : r.status = "success"
    /\ \E n \in AllNodeIds : \E r \in RecordsOf(DbResults, n) :
          r.status = "skipped" /\ r.skipReason = <<"Execution cancelled">>

\* C5: when the run has finished, every node whose coroutine was running when
\* a cancel request read the trace carries in the persisted trace the
\* outcome its executor returned (success or error), not cancelled or skipped.
C5_DispatchedNodesKeepRealOutcome ==
    pc = "done"
    => \A n \in DOMAIN results :
          (\E c \in RecordsOf(cancel_exec.execution_data.nodeResults, n) :
              c.status \in {"running", "cancelled"})
          => /\ RecordsOf(DbResults, n) # {}
             /\ \A r \in RecordsOf(DbResults, n) :
                   r.status = IF results[n].success THEN "success" ELSE "error"

\* C6: while a run is in progress no step of the cancel request changes the
\* persisted execution_data.
C6_OnlyOrchestratorWritesExecutionData ==
    [][(/\ pc \in {"running", "levels", "gather", "returned"}
        /\ <<cancel_pc, cancel_exec, cancel_todo>>' # <<cancel_pc, cancel_exec, cancel_todo>>)
       => db.execution_data' = db.execution_data]_vars

\* C7: whenever a node's coroutine has started, every node in the level of
\* each of its upstream nodes, and every node of every earlier level, has
\* finished.
C7_NoNodeBeforeUpstreamLevels ==
    \A n \in DOMAIN task_pc :
        task_pc[n] # "created"
        => /\ \A u \in AllNodeIds :
                 n \in Reachable(u, edges)
                 => \A m \in Range(execution_levels[LevelOf(execution_levels, u) + 1]) :
                       NodeFinished(m)
           /\ \A m \in AllNodeIds :
                 LevelOf(execution_levels, m) < LevelOf(execution_levels, n)
                 => NodeFinished(m)

\* C7 witness: a node of the third level or later is running and an upstream
\* node of it that needed an executor has returned
C7_Witness ==
    \E n \in DOMAIN task_pc :
        /\ task_pc[n] = "running"
        /\ LevelOf(execution_levels, n) >= 2
        /\ \E u \in DOMAIN results : n \in Reachable(u, edges)

\* the values that the variable_set nodes of levels lo..hi-1 wrote to `name`
WrittenValues(name, lo, hi) ==
    {results[w].setVariable.value :
        w \in {x \in DOMAIN results :
                  /\ "setVariable" \in DOMAIN results[x]
                  /\ results[x].setVariable.name = name
                  /\ LevelOf(execution_levels, x) >= lo
                  /\ LevelOf(execution_levels, x) < hi}}

\* C8: what an executor reads through __variables__ is the variable store as
\* it was when the node's level started, so no write of the same level is
\* in it; and a variable written by a variable_set node of level k is
\* defined, with a value written at level k or later, in what every executor
\* of a later level reads.
C8_VariableWritesVisibleNextLevel ==
    \A n \in DOMAIN seen_variables :
        /\ seen_variables[n] = level_variables[LevelOf(execution_levels, n) + 1]
        /\ \A s \in DOMAIN results :
              (/\ "setVariable" \in DOMAIN results[s]
               /\ LevelOf(execution_levels, s) < LevelOf(execution_levels, n))
              => /\ results[s].setVariable.name \in DOMAIN seen_variables[n]
                 /\ seen_variables[n][results[s].setVariable.name]
                       \in WrittenValues(results[s].setVariable.name,
                                         LevelOf(execution_levels, s),
                                         LevelOf(execution_levels, n))

\* C8 witness: a variable_set node wrote a variable that a variable_get node
\* of the same level did not see and a variable_get node of a later level saw
C8_Witness ==
    \E s \in DOMAIN results :
        /\ "setVariable" \in DOMAIN results[s]
        /\ \E n \in DOMAIN seen_variables :
              /\ n # s
              /\ LevelOf(execution_levels, n) = LevelOf(execution_levels, s)
              /\ Get(seen_variables[n], results[s].setVariable.name, None)
                    # results[s].setVariable.value
        /\ \E n \in DOMAIN seen_variables :
              /\ LevelOf(execution_levels, n) > LevelOf(execution_levels, s)
              /\ Get(seen_variables[n], results[s].setVariable.name, None)
                    = results[s].setVariable.value

\* C9: no node of a level after the level of a failed node ever has a
\* coroutine; and when the failure is handled every coroutine of the level
\* has returned and its outcome is in the trace.
C9_FailFastPerLevel ==
    /\ \A f \in FailedNodes : \A m \in DOMAIN task_pc :
          LevelOf(execution_levels, m) <= LevelOf(execution_levels, f)
    /\ "failedNodeId" \in DOMAIN result
       => \A n \in Range(tasks) :
             /\ task_pc[n] = "returned"
             /\ \E r \in RecordsOf(MemResults, n) :
                   r.status = IF results[n].success THEN "success" ELSE "error"

\* C9 witness: a failure has been handled in a level in which another
\* dispatched node succeeded, and the flow has later levels
C9_Witness ==
    /\ "failedNodeId" \in DOMAIN result
    /\ \E n \in Range(tasks) : n # result.failedNodeId /\ results[n].success
    /\ LevelOf(execution_levels, result.failedNodeId) + 1 < Len(execution_levels)

UpstreamFailed(x) == <<"Upstream node ", x, " failed">>

\* C10: when the run has finished, every node reachable from a failed node X
\* is executed, or was skipped for another cause, or has a `skipped` record
\* with the reason "Upstream node X failed".
C10_DescendantsOfFailedNodeSkipped ==
    pc = "done"
    => \A x \in FailedNodes : \A y \in Reachable(x, edges) :
          \/ y \in executed_nodes
          \/ \E r \in RecordsOf(MemResults, y) :
                /\ r.status = "skipped"
                /\ r.skipReason \in {UpstreamFailed(x), <<"Execution cancelled">>,
                                     <<"No input data - conditional branch not taken">>}

\* the graph has a directed cycle: some node is reachable from itself
HasDirectedCycle(ns, es) == \E i \in 1..Len(ns) : ns[i].id \in Reachable(ns[i].id, es)

RECURSIVE Flatten(_)
Flatten(levels) == IF levels = <<>> THEN <<>> ELSE Head(levels) \o Flatten(Tail(levels))

\* C11: for every graph without a directed cycle (repeated edges included)
\* _group_nodes_by_depth returns levels, not None; the levels hold every node
\* exactly once; every edge goes from a level to a strictly later one, so in
\* the flattened levels every edge's source stands before its target; and
\* these are the levels execute_flow works with.
C11_LevelsAreTopologicalOrder ==
    ~HasDirectedCycle(nodes, edges)
    => LET r == _group_nodes_by_depth(nodes, edges)
           flat == Flatten(r.levels)
           at(id) == CHOOSE i \in 1..Len(flat) : flat[i] = id
       IN /\ ~r.none
          /\ Len(flat) = Len(nodes)
          /\ Range(flat) = AllNodeIds
          /\ \A i \in 1..Len(edges) :
                /\ LevelOf(r.levels, edges[i].source) < LevelOf(r.levels, edges[i].target)
                /\ at(edges[i].source) < at(edges[i].target)
          /\ pc = "levels" => execution_levels = r.levels

\* C11 witness: execute_flow holds three levels of a graph with a repeated edge
C11_Witness ==
    /\ pc = "levels"
    /\ Len(execution_levels) = 3
    /\ \E i, j \in 1..Len(edges) : i # j /\ edges[i] = edges[j]

\* C12: for every graph with a directed cycle _group_nodes_by_depth returns
\* None and no levels; execute_flow never reaches its level loop, and once it
\* has returned, its result is the structural failure, nothing was resolved
\* or run, and neither the worker's trace nor the persisted one has a record.
C12_CycleGivesNoLevels ==
    HasDirectedCycle(nodes, edges)
    => /\ _group_nodes_by_depth(nodes, edges) = [none |-> TRUE, levels |-> <<>>]
       /\ pc # "levels"
       /\ execution_levels = <<>>
       /\ invocations = EmptyDict /\ executed_nodes = {} /\ node_outputs = EmptyDict
       /\ MemResults = <<>> /\ DbResults = <<>>
       /\ pc = "returned"
          => result = [success |-> FALSE,
                       error |-> <<"Could not determine execution order (cycle detected?)">>]

\* C12 witness: execute_flow has returned for a graph whose first node is not
\* on a cycle and reaches one
C12_Witness ==
    /\ pc = "returned"
    /\ Len(nodes) >= 2
    /\ nodes[1].id \notin Reachable(nodes[1].id, edges)
    /\ \E i \in 2..Len(nodes) :
          /\ nodes[i].id \in Reachable(nodes[1].id, edges)
          /\ nodes[i].id \in Reachable(nodes[i].id, edges)

\* C13: for every graph whose edges reference existing nodes, _has_cycle
\* returns true exactly when the graph has a directed cycle, which is exactly
\* when _group_nodes_by_depth returns None; and for such a graph validate_flow
\* returns valid = false with an error on the field `flow`.
C13_HasCycleAgreesWithLeveling ==
    /\ _has_cycle(nodes, edges) = HasDirectedCycle(nodes, edges)
    /\ _group_nodes_by_depth(nodes, edges).none = HasDirectedCycle(nodes, edges)
    /\ validation # NoResult
       => /\ HasDirectedCycle(nodes, edges)
             <=> \E i \in 1..Len(validation.errors) : validation.errors[i].field = "flow"
          /\ HasDirectedCycle(nodes, edges) => ~validation.valid

\* C13 witness: validate_flow has rejected a graph for a cycle that does not
\* go through its first node
C13_Witness ==
    /\ validation # NoResult
    /\ ~validation.valid
    /\ \E i \in 1..Len(validation.errors) : validation.errors[i].field = "flow"
    /\ Len(nodes) = 3
    /\ nodes[1].id \notin Reachable(nodes[1].id, edges)

TerminalStatuses == {"completed", "failed", "cancelled"}

\* C14: once the worker has left the execution for good (execute_flow_async
\* has finished, or the worker process is gone) and no cancel request is
\* being served, so that nothing will write the row again, the persisted
\* status is one of completed, failed, cancelled.
C14_EveryStartedRunEnds ==
    (pc \in {"done", "terminated"} /\ cancel_pc = "idle") => db.status \in TerminalStatuses

\* C15: no node is resolved or run more than once, and when
\* execute_flow_async has finished a run that no cancel request touched with
\* the persisted status `completed`, every node without a `skipped` record
\* was resolved or run exactly once.
C15_EachNodeAtMostOnce ==
    /\ \A n \in AllNodeIds : Get(invocations, n, 0) <= 1
    /\ (pc = "done" /\ cancels = 0 /\ db.status = "completed")
       => \A n \in AllNodeIds :
              \/ \E r \in RecordsOf(DbResults, n) : r.status = "skipped"
              \/ Get(invocations, n, 0) = 1

\* the output / image_output nodes of the flow
OutputNodeIds == {n \in AllNodeIds : nodes_dict(nodes)[n].type \in OutputTypes}

\* C16: when execute_flow has returned success, then if the flow has exactly
\* one output / image_output node and that node was not skipped and has
\* received an input, the final output is the bare resolved input value of
\* that node; if the flow has
\* another number of output nodes, the final output is a mapping, and each of
\* its entries maps an output node's id to that node's resolved input value.
C16_FinalOutputShape ==
    (pc = "returned" /\ result.success)
    => IF Cardinality(OutputNodeIds) = 1
       THEN \A n \in OutputNodeIds \ skipped_nodes :
                _get_node_inputs(n, edges, node_outputs) # <<>> =>
                /\ result.output.single
                /\ result.output.value =
                       InputOrAll(_get_node_inputs(n, edges, node_outputs))
       ELSE /\ ~result.output.single
            /\ \A i \in 1..Len(result.output.outputs) :
                   /\ result.output.outputs[i].key \in OutputNodeIds
                   /\ result.output.outputs[i].value =
                          InputOrAll(_get_node_inputs(result.output.outputs[i].key,
                                                      edges, node_outputs))

\* the five sources an input node can take its value from, in the order of
\* their priority: whether source k is available to the node, and its value
SourceAvailable(k, node) ==
    CASE k = 1 -> "variableName" \in DOMAIN node.data
                  /\ node.data.variableName \in DOMAIN run.initialInput
      [] k = 2 -> "variableName" \in DOMAIN node.data
                  /\ node.data.variableName \in DOMAIN run.variables
      [] k = 3 -> "value" \in DOMAIN node.data
      [] k = 4 -> node.id \in DOMAIN run.initialInput
      [] k = 5 -> TRUE

SourceValue(k, node) ==
    CASE k = 1 -> run.initialInput[node.data.variableName]
      [] k = 2 -> run.variables[node.data.variableName]
      [] k = 3 -> node.data.value
      [] k = 4 -> run.initialInput[node.id]
      [] k = 5 -> EmptyStr

\* the positions of the records of a node in a nodeResults list
RecordIndexes(node_results, node_id) ==
    {i \in 1..Len(node_results) : node_results[i].nodeId = node_id}

\* C17: when execute_flow enters the level loop, before any level has run,
\* every input node has been resolved once, without a coroutine or an
\* executor call, to the value of the first available of its five sources,
\* and has exactly one NodeResult, in memory and persisted, with status
\* `success` and that value as output.
C17_InputNodesResolvedByPriority ==
    (pc = "levels" /\ level_idx = 0 /\ tasks = <<>>)
    => \A i \in 1..Len(nodes) :
          nodes[i].type = "input" =>
          \E k \in 1..5 :
             /\ SourceAvailable(k, nodes[i])
             /\ \A j \in 1..(k - 1) : ~SourceAvailable(j, nodes[i])
             /\ node_outputs[nodes[i].id] = Plain(SourceValue(k, nodes[i]))
             /\ Get(invocations, nodes[i].id, 0) = 1
             /\ nodes[i].id \notin DOMAIN task_pc
             /\ nodes[i].id \notin DOMAIN results
             /\ \A rs \in {MemResults, DbResults} :
                   /\ Cardinality(RecordIndexes(rs, nodes[i].id)) = 1
                   /\ \A r \in RecordsOf(rs, nodes[i].id) :
                         /\ r.status = "success"
                         /\ r.input = NoInput
                         /\ r.output = SourceValue(k, nodes[i])

\* an input node with a static value was resolved to the flow variable
\* named by its variableName, the initial input having no entry of that name
C17_Witness ==
    /\ pc = "levels"
    /\ \E i \in 1..Len(nodes) :
          /\ nodes[i].type = "input"
          /\ SourceAvailable(2, nodes[i])
          /\ SourceAvailable(3, nodes[i])
          /\ SourceAvailable(4, nodes[i])
          /\ ~SourceAvailable(1, nodes[i])
          /\ node_outputs[nodes[i].id] = Plain(run.variables[nodes[i].data.variableName])
          /\ \E r \in RecordsOf(DbResults, nodes[i].id) :
                r.status = "success" /\ r.output = <<"3">>

\* the edge is the only one that enters its target on its targetHandle
SoleEdgeOnHandle(e) ==
    Cardinality({i \in 1..Len(edges) :
                    /\ edges[i].target = e.target
                    /\ Get(edges[i], "targetHandle", "input") = Get(e, "targetHandle", "input")}) = 1

\* C18: in the inputs handed to a node's coroutine, an incoming edge whose
\* source is an executed conditional node has contributed the conditional's
\* output under its targetHandle if and only if its sourceHandle is the
\* outputHandle the conditional selected, and an incoming edge from any other
\* node that has an output has contributed that output under its targetHandle.
C18_EdgeContributesIffLive ==
    \A n \in DOMAIN task_inputs : \A i \in 1..Len(edges) :
        LET e == edges[i]
            source_type == nodes_dict(nodes)[e.source].type
            target_handle == Get(e, "targetHandle", "input")
        IN (e.target = n /\ e.source \in DOMAIN node_outputs /\ SoleEdgeOnHandle(e))
           => IF source_type = "conditional"
              THEN IF Get(e, "sourceHandle", "output") = node_outputs[e.source].outputHandle
                   THEN /\ HasKey(task_inputs[n], target_handle)
                        /\ Lookup(task_inputs[n], target_handle, None)
                               = node_outputs[e.source].output
                   ELSE ~HasKey(task_inputs[n], target_handle)
              ELSE /\ HasKey(task_inputs[n], target_handle)
                   /\ Lookup(task_inputs[n], target_handle, None)
                          = node_outputs[e.source].value

\* the statuses of a NodeResult that is not rewritten by its node any more
FinalRecordStatuses == {"success", "error", "skipped"}

C20_PersistedAfterNodeAndLevel ==
    cancels = 0 =>
        /\ pc \in {"levels", "gather", "returned"}
           => db.execution_data = execution.execution_data
        /\ (pc = "levels" /\ level_idx > 0)
           => db.execution_data.variables = flow_variables

\* C21: no step removes a record from the persisted nodeResults or changes a
\* record in it; the one change let through here is that the `running`
\* record of a node makes way, at its position, for another record of that
\* node.
C21_TraceIsAppendOnly ==
    [][\A i \in 1..Len(DbResults) :
          /\ i <= Len(DbResults')
          /\ \/ DbResults'[i] = DbResults[i]
             \/ /\ DbResults[i].status = "running"
                /\ DbResults'[i].nodeId = DbResults[i].nodeId]_vars

\* the statuses of a NodeResult according to the data model
NodeResultStatuses == {"success", "error", "skipped", "cancelled"}

\* C22 as stated: every persisted NodeResult has a status in {success,
\* error, skipped, cancelled}.
C22_StatusesAsStated ==
    \A i \in 1..Len(DbResults) : DbResults[i].status \in NodeResultStatuses

\* C22 as amended: every NodeResult, persisted or in the memory of the worker
\* or of the cancel request, has a status in {running, success, error,
\* skipped, cancelled}.
C22_RecordStatuses ==
    \A rs \in {DbResults, MemResults, cancel_exec.execution_data.nodeResults} :
        \A i \in 1..Len(rs) : rs[i].status \in NodeResultStatuses \cup {"running"}

\* the persisted trace holds the `running` record of a node whose coroutine
\* is waiting for its executor, next to the `success` record of another node
C22_Witness ==
    \E i, j \in 1..Len(DbResults) :
        /\ DbResults[i].status = "success"
        /\ DbResults[j].status = "running"
        /\ DbResults[j].nodeId \in DOMAIN task_pc
        /\ task_pc[DbResults[j].nodeId] = "running"

\* the position of the first record of a node in a nodeResults list, and the
\* position of a node in the order of completion
RecordIndex(node_results, node_id) ==
    CHOOSE i \in RecordIndexes(node_results, node_id) :
        \A j \in RecordIndexes(node_results, node_id) : i <= j

CompletionIndex(node_id) == CHOOSE i \in 1..Len(completed) : completed[i] = node_id

\* C23: in a run that no cancel request touches, of two nodes of the same
\* level whose coroutines have both returned, the one that returned first has
\* its NodeResult before the other's in the persisted nodeResults.
C23_RecordsInCompletionOrder ==
    cancels = 0 =>
        \A l \in 1..Len(execution_levels) :
            \A n, m \in Range(execution_levels[l]) \cap Range(completed) :
                (/\ CompletionIndex(n) < CompletionIndex(m)
                 /\ RecordIndexes(DbResults, n) # {}
                 /\ RecordIndexes(DbResults, m) # {})
                => RecordIndex(DbResults, n) < RecordIndex(DbResults, m)

\* the ends of edges that are not ids of nodes
DanglingEnds ==
    ({edges[i].source : i \in 1..Len(edges)} \cup {edges[i].target : i \in 1..Len(edges)})
        \ AllNodeIds

\* C25: whatever nodes and edges validate_flow is called with, edges to or
\* from ids that no node has included, the call returns a validation result,
\* and the result reports every such id on the field `edges`.
C25_ValidateNeverThrows ==
    validation # NoResult
    => /\ "raised" \notin DOMAIN validation
       /\ \A id \in DanglingEnds :
             \E i \in 1..Len(validation.errors) :
                validation.errors[i].field = "edges" /\ validation.errors[i].nodeId = id

\* C26: after validate_flow has returned or raised, the nodes and edges of
\* its caller, the data mapping of each node included, are what they were
\* before the call.
C26_ValidateLeavesGraphAlone ==
    validation # NoResult => flow_data = run.flow

\* the per-node field checks of the validation rules
NodeFieldsOk(node) ==
    CASE node.type = "input" ->
            \/ "value" \in DOMAIN node.data /\ node.data.value \notin {None, EmptyStr}
            \/ "variableName" \in DOMAIN node.data /\ node.data.variableName # NoName
      [] node.type = "llm" ->
            /\ {"provider", "model", "userPromptTemplate"} \subseteq DOMAIN node.data
            /\ node.data.provider # NoName
            /\ node.data.model # NoName
            /\ node.data.userPromptTemplate \notin {None, EmptyStr}
            /\ "temperature" \in DOMAIN node.data => node.data.temperature \in 0..20
      [] node.type = "output" ->
            "format" \in DOMAIN node.data /\ node.data.format # NoName
      [] OTHER -> TRUE

\* the nodes without incident edges whose type is neither input nor output
IsolatedNodes ==
    {n \in AllNodeIds :
        /\ nodes_dict(nodes)[n].type \notin {"input", "output"}
        /\ \A i \in 1..Len(edges) : edges[i].source # n /\ edges[i].target # n}

\* what the rules ask of a valid flow
StructureOk ==
    /\ nodes # <<>>
    /\ \E i \in 1..Len(nodes) : nodes[i].type = "input"
    /\ \E i \in 1..Len(nodes) : nodes[i].type = "output"
    /\ DanglingEnds = {}
    /\ \A i \in 1..Len(nodes) : NodeFieldsOk(nodes[i])
    /\ ~HasDirectedCycle(nodes, edges)

UnimplementedTypes == {"code", "http_request", "delay"}

\* C28: get_executor raises for every type tag that has no registered
\* executor; and a node of type code, http_request or delay whose coroutine
\* has returned has the failure "No executor registered", is never counted as
\* executed, and the run that no cancel request touches ends with the
\* persisted status `failed`.
C28_UnregisteredNodeFailsRun ==
    /\ \A t \in NodeTypes \ RegisteredTypes : "raised" \in DOMAIN get_executor(t)
    /\ \A n \in AllNodeIds :
          (nodes_dict(nodes)[n].type \in UnimplementedTypes /\ n \in DOMAIN results)
          => /\ ~results[n].success
             /\ results[n].error = "No executor registered for node type"
             /\ n \notin executed_nodes
             /\ pc = "returned" => ~result.success
             /\ (pc = "done" /\ cancels = 0) => db.status = "failed"

\* C29: a nodeResults list holds at most one record per node id: the list the
\* worker holds in memory, the persisted list, and the list cancel_execution
\* holds and saves, whatever the interleaving of the worker and of a cancel
\* request.
C29_OneRecordPerNode ==
    \A n \in AllNodeIds :
        /\ Cardinality(RecordIndexes(MemResults, n)) <= 1
        /\ Cardinality(RecordIndexes(DbResults, n)) <= 1
        /\ Cardinality(RecordIndexes(cancel_exec.execution_data.nodeResults, n)) <= 1

\* C30: once cancel_execution has completed on a row whose status was still
\* `pending`, every later step leaves the persisted status `cancelled` and
\* resolves or runs no node.
C30_CancelledWhilePendingStays ==
    [][cancelled_from = "pending"
       => /\ db'.status = "cancelled"
          /\ \A n \in AllNodeIds : Get(invocations', n, 0) <= Get(invocations, n, 0)]_vars

\* C31: when execute_flow_async has finished a run, every node of the flow
\* has exactly one NodeResult in the orchestrator's trace, in memory and
\* persisted, and no NodeResult has the status `running`.
C31_TerminalTraceIsComplete ==
    pc = "done"
    => /\ \A n \in AllNodeIds :
             /\ Cardinality(RecordIndexes(MemResults, n)) = 1
             /\ Cardinality(RecordIndexes(DbResults, n)) = 1
       /\ \A i \in 1..Len(MemResults) : MemResults[i].status # "running"
       /\ \A i \in 1..Len(DbResults) : DbResults[i].status # "running"

\* the positions, in the level's task list, of the nodes whose result carries
\* a setVariable signal for the variable
Writers(name) ==
    {i \in 1..Len(tasks) : /\ "setVariable" \in DOMAIN results[tasks[i]]
                           /\ results[tasks[i]].setVariable.name = name}

\* the largest element of a non-empty set of numbers
Last(S) == CHOOSE i \in S : \A j \in S : j <= i

\* the variable store as it was when the level of `tasks` started
StoreBefore == level_variables[Len(level_variables)]

\* C32: when the results of a level have been processed without a failure,
\* every variable written in the level holds the value written by the writer
\* that comes last in the level's list, in whatever order the nodes finished,
\* and every other variable is as it was when the level started.
C32_LastWriterInLevelOrderWins ==
    (pc = "levels" /\ tasks # <<>>)
    => \A name \in DOMAIN flow_variables \cup DOMAIN StoreBefore
                   \cup {results[tasks[i]].setVariable.name :
                            i \in {j \in 1..Len(tasks) : "setVariable" \in DOMAIN results[tasks[j]]}} :
          IF Writers(name) = {}
          THEN /\ (name \in DOMAIN flow_variables) = (name \in DOMAIN StoreBefore)
               /\ name \in DOMAIN flow_variables => flow_variables[name] = StoreBefore[name]
          ELSE /\ name \in DOMAIN flow_variables
               /\ flow_variables[name] = results[tasks[Last(Writers(name))]].setVariable.value

\* two nodes of the level wrote different values to one variable, and the one
\* that comes later in the level's list finished first
C32_Witness ==
    /\ pc = "levels"
    /\ tasks # <<>>
    /\ \E name \in DOMAIN flow_variables :
          \E i, j \in Writers(name) :
             /\ i < j
             /\ results[tasks[i]].setVariable.value # results[tasks[j]].setVariable.value
             /\ CompletionIndex(tasks[j]) < CompletionIndex(tasks[i])

\* the positions, in the level's task list, of the nodes whose result is a
\* failure
FailingTasks == {i \in 1..Len(tasks) : ~results[tasks[i]].success}

\* the failing node that comes first in the level's list
FirstFailing == tasks[CHOOSE i \in FailingTasks : \A j \in FailingTasks : i <= j]

\* the records with an "Upstream node ... failed" reason
UpstreamSkips(node_results) ==
    {i \in 1..Len(node_results) :
        /\ "skipReason" \in DOMAIN node_results[i]
        /\ \E x \in AllNodeIds : node_results[i].skipReason = UpstreamFailed(x)}

\* C33: when execute_flow has reported a failed node, that node is the
\* failing node that comes first in the level's list, whatever the order in
\* which the nodes of the level finished, and every record skipped with an
\* "Upstream node ... failed" reason names that node and belongs to one of its
\* descendants.
C33_FirstFailingInLevelOrderReported ==
    "failedNodeId" \in DOMAIN result
    => /\ FailingTasks # {}
       /\ result.failedNodeId = FirstFailing
       /\ \A i \in UpstreamSkips(MemResults) :
             /\ MemResults[i].skipReason = UpstreamFailed(FirstFailing)
             /\ MemResults[i].nodeId \in Reachable(FirstFailing, edges)

\* two nodes of one level failed, the later one in the list finished first,
\* and a descendant was skipped
C33_Witness ==
    /\ "failedNodeId" \in DOMAIN result
    /\ \E i, j \in FailingTasks : i < j /\ CompletionIndex(tasks[j]) < CompletionIndex(tasks[i])
    /\ UpstreamSkips(MemResults) # {}
    /\ \E n \in AllNodeIds : n \in Reachable(tasks[Len(tasks)], edges)
                             /\ n \notin Reachable(FirstFailing, edges)

\* the executed nodes whose result carries a setVariable signal for the
\* variable, as positions in the flattened list of levels
SignalPositions(name) ==
    {i \in 1..Len(Flatten(execution_levels)) :
        LET n == Flatten(execution_levels)[i]
        IN /\ n \in executed_nodes
           /\ n \in DOMAIN results
           /\ results[n].success
           /\ "setVariable" \in DOMAIN results[n]
           /\ results[n].setVariable.name = name}

\* the names some executed node has sent a setVariable signal for
SignalledNames ==
    {results[n].setVariable.name :
        n \in {m \in executed_nodes \cap DOMAIN results : "setVariable" \in DOMAIN results[m]}}

\* C34: when execute_flow_async has finished a run that no cancel request
\* touched with the persisted status `completed`, the persisted
\* execution_data.variables holds, for every variable an executed node sent a
\* setVariable signal for, the value of the last such signal in level order,
\* and for every other variable the run's initial value.
C34_PersistedVariablesAreTheSignals ==
    (pc = "done" /\ cancels = 0 /\ db.status = "completed")
    => LET persisted == db.execution_data.variables
       IN /\ DOMAIN persisted = DOMAIN run.variables \cup SignalledNames
          /\ \A name \in DOMAIN persisted :
                persisted[name] =
                    IF name \in SignalledNames
                    THEN results[Flatten(execution_levels)[Last(SignalPositions(name))]].setVariable.value
                    ELSE run.variables[name]

\* the node looked at in a run of ProbeFlow
ProbedData == nodes_dict(nodes)["x"].data

\* the value under "input" the node was handed
ProbedInput == Lookup(task_inputs["x"], "input", EmptyStr)

\* a string with its letters folded when the comparison ignores case
Folded(s) == IF ProbedData.caseSensitive THEN s ELSE Lower(s)

\* the value is a number: float() accepts it
IsNumeric(v) == ParseFloat(v).ok

\* l - r for two numbers, up to a positive factor
Difference(l, r) ==
    ParseFloat(l).n * Pow10(ParseFloat(r).e) - ParseFloat(r).n * Pow10(ParseFloat(l).e)

\* the condition matches the input of the node
Matches(condition) ==
    LET text == Folded(ProbedInput)
        given == Folded(condition.value)
        operator == condition.operator
    IN \/ operator = "contains"
          /\ \E i \in 1..(Len(text) + 1), j \in 0..Len(text) : SubSeq(text, i, j) = given
       \/ operator = "equals" /\ text = given
       \/ operator = "ends_with"
          /\ \E i \in 1..(Len(text) + 1) : SubSeq(text, i, Len(text)) = given
       \/ operator = "regex" /\ ~RegexInvalid(given)
          /\ \E i \in 1..(Len(text) + 1), j \in 0..Len(text) :
                /\ j - i + 1 = Len(given)
                /\ \A k \in 1..Len(given) : given[k] \in {".", text[i + k - 1]}
       \/ operator = "greater_than" /\ IsNumeric(ProbedInput) /\ IsNumeric(given)
          /\ Difference(ProbedInput, given) > 0
       \/ operator = "less_than" /\ IsNumeric(ProbedInput) /\ IsNumeric(given)
          /\ Difference(ProbedInput, given) < 0
       \/ operator = "equals_number" /\ IsNumeric(ProbedInput) /\ IsNumeric(given)
          /\ Difference(ProbedInput, given) = 0
       \/ operator = "is_empty" /\ \A i \in 1..Len(text) : text[i] = " "
       \/ operator = "is_not_empty" /\ \E i \in 1..Len(text) : text[i] # " "
       \/ operator = "length_greater_than" /\ ParseInt(given).ok
          /\ Len(text) > ParseInt(given).n
       \/ operator = "length_less_than" /\ ParseInt(given).ok
          /\ Len(text) < ParseInt(given).n

\* the positions of the conditions that match
Matching == {i \in 1..Len(ProbedData.conditions) : Matches(ProbedData.conditions[i])}

\* the positions of the regex conditions whose pattern does not compile
BadPatterns ==
    {i \in 1..Len(ProbedData.conditions) :
        /\ ProbedData.conditions[i].operator = "regex"
        /\ RegexInvalid(ProbedData.conditions[i].value)}

First(S) == CHOOSE i \in S : \A j \in S : i <= j

\* what the claim says of the result of a conditional node
AsClaimed(r) ==
    /\ r.success
    /\ r.output = ProbedInput
    /\ r.outputHandle = IF Matching = {} THEN ProbedData.defaultOutputHandle
                        ELSE ProbedData.conditions[First(Matching)].outputHandle

\* C35 as stated: the result of a conditional node is a success whose output
\* is the unchanged input and whose outputHandle is the handle of the first
\* condition, in list order, that matches the input (a numeric operator on a
\* non-numeric input does not match), or defaultOutputHandle when none does.
C35_FirstMatchingConditionWins ==
    "x" \in DOMAIN results => AsClaimed(results["x"])

\* C35 amended: the same, unless a regex condition whose pattern does not
\* compile comes before every matching condition, in which case the result
\* is the failure "Invalid regex".
C35_FirstMatchOrRegexError ==
    "x" \in DOMAIN results
    => IF BadPatterns # {} /\ \A i \in Matching : First(BadPatterns) < i
       THEN ~results["x"].success /\ results["x"].error = "Invalid regex"
       ELSE AsClaimed(results["x"])

\* the first condition is a numeric comparison of an input that is not a
\* number, and the second condition matches and gives the handle
C35_Witness ==
    /\ "x" \in DOMAIN results
    /\ Len(ProbedData.conditions) >= 2
    /\ ProbedData.conditions[1].operator \in {"greater_than", "less_than", "equals_number"}
    /\ IsNumeric(ProbedData.conditions[1].value)
    /\ ~IsNumeric(ProbedInput)
    /\ Matching # {}
    /\ results["x"].outputHandle = HandleAt(2)

\* the sources of the edges into a node
Predecessors(id, es) == {es[i].source : i \in {j \in 1..Len(es) : es[j].target = id}}

\* the length of the longest path that ends in a node of an acyclic graph
RECURSIVE LongestPathTo(_, _)
LongestPathTo(id, es) ==
    IF Predecessors(id, es) = {} THEN 0
    ELSE LET depths == {LongestPathTo(p, es) : p \in Predecessors(id, es)}
         IN 1 + Last(depths)

\* the nodes of the levels before level k (from 0)
EarlierLevels(levels, k) == UNION {Range(levels[h]) : h \in 1..k}

\* C36: for every graph without a directed cycle _group_nodes_by_depth puts
\* each node in the level whose index is the length of the longest path from
\* a node without incoming edges to it; each level holds exactly the nodes not
\* in an earlier level whose edge sources all lie in earlier levels; the chain
\* 1 -> 2 -> 3 gives [[1], [2], [3]] and the fan-out 1 -> 2, 1 -> 3 gives
\* [[1], [2, 3]]; and these are the levels execute_flow works with.
C36_LevelIsLongestPath ==
    ~HasDirectedCycle(nodes, edges)
    => LET levels == _group_nodes_by_depth(nodes, edges).levels
       IN /\ \A id \in AllNodeIds : LevelOf(levels, id) = LongestPathTo(id, edges)
          /\ \A k \in 0..(Len(levels) - 1) :
                Range(levels[k + 1]) =
                    {id \in AllNodeIds \ EarlierLevels(levels, k) :
                        Predecessors(id, edges) \subseteq EarlierLevels(levels, k)}
          /\ (Len(nodes) = 3 /\ edges = << [source |-> "1", target |-> "2"],
                                           [source |-> "2", target |-> "3"] >>)
             => levels = << <<"1">>, <<"2">>, <<"3">> >>
          /\ (Len(nodes) = 3 /\ edges = << [source |-> "1", target |-> "2"],
                                           [source |-> "1", target |-> "3"] >>)
             => levels = << <<"1">>, <<"2", "3">> >>
          /\ pc = "levels" => execution_levels = levels

\* execute_flow holds the levels of a graph in which a node is reached by a
\* path of length one and by a path of length two
C36_Witness ==
    /\ pc = "levels"
    /\ \E id \in AllNodeIds :
          /\ LevelOf(execution_levels, id) = 2
          /\ \E p \in Predecessors(id, edges) : LevelOf(execution_levels, p) = 0

\* what the extraction at position i of the probed node yields from the
\* document: its matches, else its fallback, else None
Extracted(i) ==
    LET extraction == ProbedData.extractions[i]
        matches == PathFind(extraction.path, JsonLoads(ProbedInput))
    IN IF matches # <<>>
       THEN (IF ProbedData.outputFormat = "array" THEN ListValue(matches) ELSE matches[1])
       ELSE Get(extraction, "fallback", None)

\* the extractions whose path has no match and that have no fallback
Unmatched ==
    {i \in 1..Len(ProbedData.extractions) :
        /\ PathFind(ProbedData.extractions[i].path, JsonLoads(ProbedInput)) = <<>>
        /\ "fallback" \notin DOMAIN ProbedData.extractions[i]}

\* C37: for a JSON document and extractions whose paths are well-formed, the
\* result of a json_extractor node is an error when strictMode is set and a
\* path without fallback has no match; otherwise it is a success whose output
\* is the single extracted value when there is exactly one extraction and
\* outputFormat is not array, and else the mapping from each extraction key
\* to its extracted value, with None for a path without match and fallback.
C37_ExtractedMappingOrSingleValue ==
    ("x" \in DOMAIN results /\ JsonLoads(ProbedInput).ok
        /\ \A i \in 1..Len(ProbedData.extractions) : ~PathInvalid(ProbedData.extractions[i].path))
    => IF ProbedData.strictMode /\ Unmatched # {}
       THEN ~results["x"].success
       ELSE /\ results["x"].success
            /\ results["x"].output =
                  IF Len(ProbedData.extractions) = 1 /\ ProbedData.outputFormat # "array"
                  THEN Extracted(1)
                  ELSE DictValue([i \in 1..Len(ProbedData.extractions) |->
                                     [key |-> ProbedData.extractions[i].key,
                                      value |-> Extracted(i)]])

\* the inputs the probed node was handed whose key is not in `dropped`
InputsWithout(dropped) == SelectSeq(task_inputs["x"], LAMBDA e : e.key \notin dropped)

\* where the text of the i-th of the values starts in their concatenation
RECURSIVE OffsetOf(_, _)
OffsetOf(kept, i) == IF i = 1 THEN 0 ELSE OffsetOf(kept, i - 1) + Len(StrOf(kept[i - 1].value))

\* what the claim says of the result of a merge node over the inputs `kept`
MergedAsClaimed(kept, r) ==
    /\ kept = <<>> => ~r.success
    /\ (kept # <<>> /\ ProbedData.mergeStrategy = "concat")
       => /\ r.success
          /\ Len(r.output) = OffsetOf(kept, Len(kept) + 1)
          /\ \A i \in 1..Len(kept) :
                SubSeq(r.output, OffsetOf(kept, i) + 1, OffsetOf(kept, i + 1))
                    = StrOf(kept[i].value)
    /\ (kept # <<>> /\ ProbedData.mergeStrategy = "array")
       => /\ r.success
          /\ r.output = ListValue([i \in 1..Len(kept) |-> kept[i].value])

\* C38 as stated: over the inputs other than __variables__, in their
\* iteration order, concat gives the concatenation of the values as strings,
\* array gives the list of the values, and no input at all gives an error
\* for every strategy.
C38_MergeOverInputsButVariables ==
    "x" \in DOMAIN results => MergedAsClaimed(InputsWithout({"__variables__"}), results["x"])

\* C38 amended: the same over the inputs whose key does not start with "__".
C38_MergeOverPlainInputs ==
    "x" \in DOMAIN results
    => MergedAsClaimed(SelectSeq(task_inputs["x"], LAMBDA e : ~IsSpecialKey(e.key)),
                       results["x"])

\* the merge node has concatenated "foo" under a and "bar" under b to "foobar"
C38_Witness ==
    /\ "x" \in DOMAIN results
    /\ ProbedData.mergeStrategy = "concat"
    /\ Len(task_inputs["x"]) = 3
    /\ task_inputs["x"][1] = [key |-> "a", value |-> <<"f", "o", "o">>]
    /\ task_inputs["x"][2] = [key |-> "b", value |-> <<"b", "a", "r">>]
    /\ results["x"].output = <<"f", "o", "o", "b", "a", "r">>

\* the type of the probed node
ProbedType == nodes_dict(flow_data.nodes)["x"].type

\* C39: a variable_get node returns the stored value of its variable, or
\* fallbackValue when the variable is not stored; a variable_set node returns
\* its input, or its static value when valueSource is static, as output,
\* together with a setVariable signal that carries the name and that value;
\* each returns an error when variableName is missing or empty.
C39_VariableGetAndSet ==
    (ProbedType \in {"variable_get", "variable_set"} /\ "x" \in DOMAIN results)
    => LET r == results["x"]
           named == "variableName" \in DOMAIN ProbedData /\ ProbedData.variableName # ""
           stored == run.variables
           value == IF "valueSource" \in DOMAIN ProbedData
                       /\ ProbedData.valueSource = "static"
                    THEN (IF "staticValue" \in DOMAIN ProbedData
                          THEN ProbedData.staticValue ELSE None)
                    ELSE Lookup(task_inputs["x"], "input", None)
       IN /\ ~named => ~r.success
          /\ (named /\ ProbedType = "variable_get")
             => /\ r.success
                /\ ProbedData.variableName \in DOMAIN stored
                   => r.output = stored[ProbedData.variableName]
                /\ (ProbedData.variableName \notin DOMAIN stored
                    /\ "fallbackValue" \in DOMAIN ProbedData)
                   => r.output = ProbedData.fallbackValue
                /\ (ProbedData.variableName \notin DOMAIN stored
                    /\ "fallbackValue" \notin DOMAIN ProbedData)
                   => r.output = None
          /\ (named /\ ProbedType = "variable_set")
             => /\ r.success
                /\ r.output = value
                /\ r.setVariable = [name |-> ProbedData.variableName, value |-> value]

\* a variable_set node with a static value has signalled that value, which
\* differs from its input
C39_Witness ==
    /\ ProbedType = "variable_set"
    /\ "x" \in DOMAIN results
    /\ results["x"].success
    /\ results["x"].setVariable = [name |-> "v", value |-> <<"s">>]
    /\ results["x"].output = <<"s">>
    /\ Lookup(task_inputs["x"], "input", None) = <<"i">>

\* the operations of the probed node that are enabled, in list order
EnabledOperations == SelectSeq(ProbedData.operations, LAMBDA o : Get(o, "enabled", TRUE))

OperationTypes ==
    {"trim", "uppercase", "lowercase", "capitalize", "replace", "regex_replace", "split",
     "join", "substring", "prefix", "suffix", "remove_whitespace"}

\* the text after the first k enabled operations, each applied to the result
\* of the one before it; ok is false from the first one that raises
RECURSIVE AfterOperations(_)
AfterOperations(k) ==
    IF k = 0 THEN [ok |-> TRUE, text |-> StrOf(Lookup(task_inputs["x"], "input", EmptyStr))]
    ELSE LET before == AfterOperations(k - 1)
         IN IF before.ok
            THEN _apply_operation(before.text, EnabledOperations[k].type,
                                  Get(EnabledOperations[k], "config", EmptyDict))
            ELSE before

\* C40: the output of a text_transformer node with operations is what the
\* enabled operations give when applied one after the other in list order,
\* the disabled ones left out; when the first operation that fails is one of
\* an unknown type, the result is an error that names that type; and trim
\* applied to a trimmed text returns that text.
C40_EnabledOperationsInListOrder ==
    ("x" \in DOMAIN results /\ ProbedData.operations # <<>>)
    => LET r == results["x"]
           n == Len(EnabledOperations)
           raising == {k \in 1..n : ~AfterOperations(k).ok}
           first == CHOOSE k \in raising : \A j \in raising : k <= j
       IN /\ raising = {} => r.success /\ r.output = AfterOperations(n).text
          /\ raising # {}
             => /\ ~r.success
                /\ EnabledOperations[first].type \notin OperationTypes
                   => r.error = "Operation '" \o EnabledOperations[first].type
                                \o "' failed: Unknown operation type: "
                                \o EnabledOperations[first].type
          /\ \A k \in 0..n :
                AfterOperations(k).ok
                => LET trimmed == _apply_operation(AfterOperations(k).text, "trim", EmptyDict)
                   IN _apply_operation(trimmed.text, "trim", EmptyDict) = trimmed

\* the operations trim and uppercase, with uppercase disabled, have turned
\* "  hi  " into "hi"
C40_Witness ==
    /\ "x" \in DOMAIN results
    /\ Len(ProbedData.operations) = 2
    /\ ProbedData.operations[1] = [type |-> "trim", enabled |-> TRUE]
    /\ ProbedData.operations[2] = [type |-> "uppercase", enabled |-> FALSE]
    /\ Lookup(task_inputs["x"], "input", EmptyStr) = <<" ", " ", "h", "i", " ", " ">>
    /\ results["x"].success
    /\ results["x"].output = <<"h", "i">>

====
